---- MODULE Spec2Model ----
(***************************************************************************)
(* Model of the batch job orchestration engine of manager/main.go:         *)
(* handleFileUpload (ingestion), BatchProcess.startProcessing (worker      *)
(* pool, sender and collector goroutines), BatchJob.processURL (retry      *)
(* loop and response handling), BatchProcess.updateJob / notifyClients     *)
(* and handleWebSocket (subscribers); and of the chunked extraction of     *)
(* manager/parser.go: UnifiedParser.parseWithGemini.                       *)
(*                                                                         *)
(* Strings built by fmt.Errorf are modelled as sequences of strings: the   *)
(* format string followed by its rendered arguments.  The empty Go string  *)
(* is the empty sequence.                                                  *)
(***************************************************************************)
EXTENDS Integers, Sequences, FiniteSets, TLC

VARIABLES
    processes,  \* the registry map: set of batch ids that are registered
    bp,         \* the BatchProcess record (ID, Jobs, Status, Progress, StartTime, EndTime, clients)
    mu,         \* holder of bp.mu: "none", "collector" or the handler of a connection
    now,        \* logical clock behind time.Now(): every call reads a later instant
    main,       \* position of the goroutine that runs startProcessing
    jobs,       \* the jobs channel: [buf, closed]
    results,    \* the results channel: [buf, closed]
    sender,     \* sender goroutine: [pc, i], i the number of jobs enqueued so far
    worker,     \* per worker goroutine: [pc, msg], msg the job in hand
    wg,         \* sync.WaitGroup counter
    collector,  \* collector goroutine: [pc, completed, msg, i, ret]
    client,     \* per websocket handler: [pc, i, snap, n, late]
    calls,      \* observation of the Processor boundary: per job position, the processURL calls made
    received,   \* observation of the collector: per job position, the results it has received
    panicked,   \* TRUE once a goroutine has panicked (the process is gone)
    response,   \* the HTTP response of the last upload: [code, body]
    cancelled,  \* TRUE once cancellation of the batch has been requested
    configWorkers, \* the package-level numWorkers that handleFileUpload assigns from the config
    access,     \* per HTTP request goroutine: its position at the registry map [pc, id, exists]
    sem,        \* p.sem of the UnifiedParser: the units of capacity held
    parse,      \* per caller of parseWithGemini: [pc, ctx, isProductInfo, len, i, seen, ...]
    baseURL,    \* p.siteScraper.baseURL: one field of the parser, shared by its calls
    siteBatch,  \* the parseWebsiteBatch call: [pc, urls, i, wg, mutex, Successful, Failed]
    site        \* per goroutine of parseWebsiteBatch: [pc, url, page, base, PdfLinks, err]

(* the variables of manager/main.go and those of manager/parser.go *)
serverVars == <<processes, bp, mu, now, main, jobs, results, sender, worker, wg,
                collector, client, calls, received, panicked, response, cancelled,
                configWorkers, access>>

siteVars == <<baseURL, siteBatch, site>>

parserVars == <<sem, parse, siteVars>>

vars == <<serverVars, parserVars>>

----------------------------------------------------------------------------
(* Bounds of the model *)

MaxJobs == 2       \* jobs per batch in Spec
MaxWsJobs == 1     \* jobs per batch in SpecWs
MaxClients == 2    \* websocket connections in SpecSubs
MaxRows == 3       \* data rows per uploaded file in SpecIngest
MaxCallers == 3    \* concurrent callers of parseWithGemini in SpecGate
MaxChunks == 7     \* len(domChunks) of a parseWithGemini call in SpecParse
MaxRequests == 3   \* HTTP requests that reach the registry in SpecRegistry
MaxURLs == 2       \* len(urls) of a parseWebsiteBatch call in SpecBatch

(* Program constants *)

numWorkers == 5
maxRetries == 3
StatusOK == 200
chunkSize == 3
MaxConcurrent == 2
StatusBadRequest == 400

Workers == 1..numWorkers
Clients == 1..MaxClients

(* net/http serves every request on a goroutine of its own *)
Requests == 1..MaxRequests

NoAccess == [pc |-> "idle", id |-> <<>>, exists |-> FALSE]

nil == <<>>

----------------------------------------------------------------------------
(* fmt.Errorf / strconv *)

Itoa(n) == <<"0", "1", "2", "3", "4", "5", "6", "7", "8", "9">>[n + 1]

Errorf(format, args) == <<format>> \o args

CodeStr(code) == IF code = StatusOK THEN "200" ELSE "500"

----------------------------------------------------------------------------
(* The environment of one processURL call: what the file system and the    *)
(* Python service answer.  posts[k] is the outcome of the k-th client.Post *)
(* if it is made: "nil" (err == nil, a response came back) or a transport  *)
(* error.  reply is the response, read only if one came back.              *)

TransportErrs == {"timeout", "connection refused"}

PostOutcomes == TransportErrs \cup {"nil"}

okReply ==
    [readOK |-> TRUE, StatusCode |-> StatusOK, bodyIsJSON |-> TRUE,
     Status |-> "success", Error |-> "", save |-> "ok"]

allNil == [k \in 1..maxRetries |-> "nil"]

(* Scripts that differ only in outcomes no call ever reads are the same    *)
(* environment: after the first "nil" no further Post is made.             *)
PostScripts ==
    { p \in [1..maxRetries -> PostOutcomes] :
        \A k \in 1..(maxRetries - 1) : p[k] = "nil" => p[k + 1] = "nil" }

(* Likewise a reply is listed once per path through the response handling *)
Replies ==
    { r \in [readOK : BOOLEAN, StatusCode : {StatusOK, 500}, bodyIsJSON : BOOLEAN,
             Status : {"success", "error"}, Error : {"", "bad model"},
             save : {"ok", "mkdir", "write"}] :
        /\ ~r.readOK => r = [okReply EXCEPT !.readOK = FALSE]
        /\ ~r.bodyIsJSON => r = [okReply EXCEPT !.bodyIsJSON = FALSE, !.StatusCode = r.StatusCode]
        /\ r.StatusCode # StatusOK => r.Status = "success" /\ r.save = "ok"
        /\ r.Status = "success" /\ r.StatusCode = StatusOK => r.Error = ""
        /\ r.Status # "success" => r.save = "ok" }

Responded(p) == \E k \in 1..maxRetries : p[k] = "nil"

AllEnvs ==
    { e \in [mkdirOK : BOOLEAN, posts : PostScripts, reply : Replies] :
        /\ ~e.mkdirOK => e.posts = allNil /\ e.reply = okReply
        /\ ~Responded(e.posts) => e.reply = okReply }

(* One environment for the success path and one for each job-level error   *)
(* kind: transport attempts exhausted, service error, persistence error.   *)
PoolEnvs ==
    { [mkdirOK |-> TRUE, posts |-> allNil, reply |-> okReply],
      [mkdirOK |-> TRUE, posts |-> [k \in 1..maxRetries |-> "timeout"], reply |-> okReply],
      [mkdirOK |-> TRUE, posts |-> allNil,
       reply |-> [okReply EXCEPT !.StatusCode = 500, !.Error = "bad model"]],
      [mkdirOK |-> TRUE, posts |-> allNil, reply |-> [okReply EXCEPT !.save = "write"]] }

----------------------------------------------------------------------------
(* BatchJob.saveResults: nil or the error of the first failing step *)

saveResults(reply) ==
    IF reply.save = "mkdir"
    THEN Errorf("failed to create results directory: %v", <<"EACCES">>)
    ELSE IF reply.save = "write"
    THEN Errorf("failed to write results file: %v", <<"ENOSPC">>)
    ELSE nil

(* The retry loop of processURL.  attempt counts the client.Post calls     *)
(* already made; the result tells whether a response was obtained, how     *)
(* many calls were made and the last transport error.                      *)

(* a loop that stops one attempt short *)
RetryGuardShort(attempt) == attempt < maxRetries - 1

(* for attempt := 0; attempt < maxRetries; attempt++ *)
RetryGuard(attempt) == attempt < maxRetries

(* a loop that goes on unless the response has status 200 *)
BreakOnStatusOK(outcome, reply) == outcome = "nil" /\ reply.StatusCode = StatusOK

(* if err == nil { break }: the response itself is not looked at here *)
BreakOn(outcome, reply) == outcome = "nil"

(* a loop that keeps the first transport error *)
LastErrFirst(lastErr, err) == IF lastErr = "" THEN err ELSE lastErr

(* lastErr = err *)
LastErr(lastErr, err) == err

RECURSIVE RetryLoop(_, _, _, _)
RetryLoop(posts, reply, attempt, lastErr) ==
    IF RetryGuard(attempt)
    THEN IF BreakOn(posts[attempt + 1], reply)
         THEN [resp |-> TRUE, attempts |-> attempt + 1, lastErr |-> lastErr]
         ELSE RetryLoop(posts, reply, attempt + 1, LastErr(lastErr, posts[attempt + 1]))
    ELSE [resp |-> FALSE, attempts |-> attempt, lastErr |-> lastErr]

(* The handling of the response once one was obtained *)

HandleResponse(reply) ==
    IF ~reply.readOK
    THEN Errorf("failed to read response: %v", <<"unexpected EOF">>)
    ELSE IF reply.StatusCode # StatusOK
    THEN IF ~reply.bodyIsJSON
         THEN Errorf("server error (status %d): %s", <<CodeStr(reply.StatusCode), "raw body">>)
         ELSE Errorf("server error (status %d): %s", <<CodeStr(reply.StatusCode), reply.Error>>)
    ELSE IF ~reply.bodyIsJSON
    THEN Errorf("failed to parse response: %v", <<"invalid character">>)
    ELSE IF reply.Status # "success"
    THEN Errorf("processing failed: %s", <<reply.Error>>)
    ELSE LET err == saveResults(reply)
         IN  IF err # nil
             THEN Errorf("failed to save results: %v", err)
             ELSE nil

(* BatchJob.processURL: [err, attempts] *)

processURL(env) ==
    IF ~env.mkdirOK
    THEN [err |-> Errorf("failed to create directory: %v", <<"EACCES">>), attempts |-> 0]
    ELSE LET r == RetryLoop(env.posts, env.reply, 0, "")
         IN  IF ~r.resp
             THEN [err |-> Errorf("failed after %d attempts: %v",
                                  <<Itoa(maxRetries), r.lastErr>>),
                   attempts |-> r.attempts]
             ELSE [err |-> HandleResponse(env.reply), attempts |-> r.attempts]

----------------------------------------------------------------------------
(* Data model *)

NoJob == [ModelNumber |-> "", URL |-> "", Status |-> "", Error |-> nil, Progress |-> 0]

NoMsg == [idx |-> 0, job |-> NoJob]

NoBatch ==
    [ID |-> <<>>, Jobs |-> <<>>, Status |-> "", Progress |-> 0,
     StartTime |-> 0, EndTime |-> 0, clients |-> <<>>]

Total == Len(bp.Jobs)

(* What conn.WriteJSON(process) encodes: the exported fields the          *)
(* properties look at, in the order of the struct                          *)
NoSnap == [Jobs |-> <<>>, Status |-> "", Progress |-> 0]

(* A websocket handler before its connection: i the index of the encoder   *)
(* in process.Jobs, snap the snapshot being encoded (the last one written  *)
(* once the handler waits), n the number of snapshots written, late        *)
(* whether the batch was completed when the handler registered             *)
NoClient == [pc |-> "idle", i |-> 0, snap |-> NoSnap, n |-> 0, late |-> FALSE]

(* the name under which the handler of connection c holds process.mu *)
Handler(c) == <<"handler1", "handler2", "handler3", "handler4">>[c]

(* no response written yet *)
Callers == 1..MaxCallers

NoCaller ==
    [pc |-> "idle", ctx |-> "live", isProductInfo |-> FALSE, len |-> 0, i |-> 0,
     seen |-> <<>>, foundResults |-> <<>>,
     result |-> [t |-> "nil", m |-> <<>>, lines |-> <<>>], err |-> <<>>]

NoResponse == [code |-> 0, body |-> <<>>]

(* http.Error(w, msg, http.StatusBadRequest) *)
BadRequest(body) == [code |-> StatusBadRequest, body |-> body]

(* the JSON reply of an accepted upload *)
Queued(id, n) == [code |-> StatusOK, body |-> <<id, "pending", "Successfully queued %d jobs", Itoa(n)>>]

(* The CSV files an upload can carry: a header row and data rows *)

Headers ==
    { <<"model_number", "url">>, <<" Model_Number ", "URL">>,
      <<"model_number", "link">>, <<"model", "url">>, <<"model", "link">> }

Cells == { <<"M1", "u1">>, <<"M2", "u1">> }

(* Row sequences up to the naming of the model numbers: the first row is M1 *)
RowSeqs(max) ==
    UNION { { r \in [1..n -> Cells] : n > 0 => r[1] = <<"M1", "u1">> } : n \in 0..max }

Files(max) == [headers : Headers, rows : RowSeqs(max)]

(* The records ingestion is given in SpecIngest: also with an empty url,   *)
(* an empty model number and a second site for the same model number       *)
IngestCells ==
    { <<"M1", "u1">>, <<"M2", "u1">>, <<"M1", "u2">>, <<"M1", "">>, <<"", "u1">> }

IngestFiles ==
    [headers : Headers, rows : UNION { [1..n -> IngestCells] : n \in 0..MaxRows }]

(* strings.ToLower(strings.TrimSpace(header)) on the header cells in use *)
Normalize(h) ==
    CASE h = "URL" -> "url"
      [] h = " Model_Number " -> "model_number"
      [] OTHER -> h

(* requiredColumns[name] after the header scan: the last matching index, -1 if none *)
ColumnIndex(headers, name) ==
    LET hits == { i \in 1..Len(headers) : Normalize(headers[i]) = name }
    IN  IF hits = {} THEN -1 ELSE CHOOSE i \in hits : \A k \in hits : k <= i

MissingColumn(headers) ==
    ColumnIndex(headers, "url") = -1 \/ ColumnIndex(headers, "model_number") = -1

(* The job built from one CSV record *)
NewJob(headers, record) ==
    [ModelNumber |-> record[ColumnIndex(headers, "model_number")],
     URL |-> record[ColumnIndex(headers, "url")],
     Status |-> "pending", Error |-> nil, Progress |-> 0]

----------------------------------------------------------------------------
(* Channels: a buffer and a closed flag *)

(* a receive that leaves the element in the buffer *)
RecvPeek(ch) == ch

(* the channel after a receive has taken the head of its buffer *)
Recv(ch) == [ch EXCEPT !.buf = Tail(@)]

(* for x := range ch ends once ch is closed and drained *)
RangeEnds(ch) == ch.buf = <<>> /\ ch.closed

----------------------------------------------------------------------------
(* Initial state: the server is up, the registry is empty *)

(* parseWebsiteBatch starts one goroutine per element of urls *)
Goroutines == 1..MaxURLs

NoSite == [pc |-> "none", url |-> <<>>, page |-> <<>>, base |-> <<>>, PdfLinks |-> <<>>,
           err |-> FALSE]

NoSiteBatch == [pc |-> "idle", urls |-> <<>>, i |-> 0, wg |-> 0, mutex |-> 0,
                Successful |-> <<>>, Failed |-> <<>>]

Init ==
    /\ processes = {}
    /\ bp = NoBatch
    /\ mu = "none"
    /\ now = 1
    /\ main = "idle"
    /\ jobs = [buf |-> <<>>, closed |-> FALSE]
    /\ results = [buf |-> <<>>, closed |-> FALSE]
    /\ sender = [pc |-> "none", i |-> 0]
    /\ worker = [w \in Workers |-> [pc |-> "none", msg |-> NoMsg]]
    /\ wg = 0
    /\ collector = [pc |-> "none", completed |-> 0, msg |-> NoMsg, i |-> 0, ret |-> "none"]
    /\ client = [c \in Clients |-> NoClient]
    /\ calls = <<>>
    /\ received = <<>>
    /\ panicked = FALSE
    /\ response = NoResponse
    /\ cancelled = FALSE
    /\ configWorkers = numWorkers
    /\ access = [h \in Requests |-> NoAccess]
    /\ sem = 0
    /\ parse = [c \in Callers |-> NoCaller]
    /\ baseURL = <<>>
    /\ siteBatch = NoSiteBatch
    /\ site = [g \in Goroutines |-> NoSite]

----------------------------------------------------------------------------
(* handleFileUpload: validates the header, builds one pending job per      *)
(* record, rejects a file without jobs and registers the batch.  A         *)
(* rejected upload returns before the registry is touched.                 *)

(* the required columns the header scan has not found *)
MissingColumns(headers) ==
    { column \in {"url", "model_number"} : ColumnIndex(headers, column) = -1 }

(* a file is never found to be without jobs *)
NoJobsNever(file) == FALSE

(* len(process.Jobs) == 0 after the records have been read *)
NoJobs(file) == Len(file.rows) = 0

Rejected(file) == MissingColumn(file.headers) \/ NoJobs(file)

(* The "config" form file: absent, or its decoded Config                   *)
NoConfig == [present |-> FALSE, MaxConcurrent |-> 0]

Configs == {NoConfig} \cup [present : {TRUE}, MaxConcurrent : {0, 2}]

(* if config.MaxConcurrent > 0 { numWorkers = config.MaxConcurrent }       *)
ConfiguredWorkers(config, current) ==
    IF config.present /\ config.MaxConcurrent > 0 THEN config.MaxConcurrent ELSE current

(* The handler for an upload with the form files "config" and "file".  The *)
(* config is applied before the CSV is read, whether or not the file is    *)
(* then accepted.  The instants read for a batch that is then discarded    *)
(* are not kept: the clock is advanced by the uploads that register a      *)
(* batch.                                                                  *)
handleUpload(file, config) ==
    /\ ~panicked
    /\ processes = {}
    /\ configWorkers' = ConfiguredWorkers(config, configWorkers)
    /\ IF MissingColumn(file.headers)
       THEN /\ \E column \in MissingColumns(file.headers) :
                 response' = BadRequest(<<"Missing required column: %s", column>>)
            /\ UNCHANGED <<processes, bp, now>>
       ELSE IF NoJobs(file)
       THEN /\ response' = BadRequest(<<"No valid jobs found in the CSV file">>)
            /\ UNCHANGED <<processes, bp, now>>
       ELSE /\ bp' = [ID |-> <<"batch_%d", Itoa(now)>>,
                      Jobs |-> [k \in 1..Len(file.rows) |-> NewJob(file.headers, file.rows[k])],
                      Status |-> "pending", Progress |-> 0,
                      StartTime |-> now + 1, EndTime |-> 0, clients |-> <<>>]
            /\ processes' = {<<"batch_%d", Itoa(now)>>}
            /\ now' = now + 2
            /\ response' = Queued(<<"batch_%d", Itoa(now)>>, Len(file.rows))
    /\ UNCHANGED <<cancelled, access, parserVars, mu, main, jobs, results, sender, worker, wg,
                   collector, client,
                   calls, received, panicked>>

(* an upload without the "config" form file *)
handleFileUpload(file) == handleUpload(file, NoConfig)

----------------------------------------------------------------------------
(* The registry: var processes = make(map[string]*BatchProcess), a plain   *)
(* map at package level.  An upload writes it with                         *)
(* processes[process.ID] = process and a subscription reads it with        *)
(* processes[batchID]; neither statement is inside a lock, so a map access *)
(* is a step with a beginning and an end that other requests may overlap.  *)

(* the ids a request may ask for: batch_<instant> *)
BatchIds == { <<"batch_%d", Itoa(t)>> : t \in 1..MaxRequests }

(* The runtime's check of the map's writing flag: an access that overlaps  *)
(* a write may end the process with "concurrent map writes" or             *)
(* "concurrent map read and map write"; the check is best effort.          *)
Fatal(overlap) == IF overlap THEN BOOLEAN ELSE {FALSE}

(* handleFileUpload reaches processes[process.ID] = process *)
StoreBegin(h) ==
    /\ ~panicked
    /\ access[h].pc = "idle"
    /\ access' = [access EXCEPT ![h] = [pc |-> "store", id |-> <<"batch_%d", Itoa(now)>>,
                                        exists |-> FALSE]]
    /\ now' = now + 1
    /\ UNCHANGED <<cancelled, configWorkers, parserVars, response, processes, bp, mu, main, jobs,
                   results, sender, worker, wg, collector, client, calls, received, panicked>>

(* the assignment to the map completes *)
StoreEnd(h) ==
    /\ ~panicked
    /\ access[h].pc = "store"
    /\ panicked' \in Fatal(\E g \in Requests \ {h} : access[g].pc \in {"store", "lookup"})
    /\ processes' = IF panicked' THEN processes ELSE processes \cup {access[h].id}
    /\ access' = [access EXCEPT ![h].pc = "stored"]
    /\ UNCHANGED <<cancelled, configWorkers, parserVars, response, bp, mu, now, main, jobs,
                   results, sender, worker, wg, collector, client, calls, received>>

(* handleWebSocket reaches process, exists := processes[batchID] *)
LookupBegin(h, batchID) ==
    /\ ~panicked
    /\ access[h].pc = "idle"
    /\ access' = [access EXCEPT ![h] = [pc |-> "lookup", id |-> batchID, exists |-> FALSE]]
    /\ UNCHANGED <<cancelled, configWorkers, parserVars, response, processes, bp, mu, now, main,
                   jobs, results, sender, worker, wg, collector, client, calls, received,
                   panicked>>

(* The read of the map completes.  A read that overlaps a write is a data  *)
(* race: whether it sees the entry being written is not determined.        *)
LookupEnd(h) ==
    /\ ~panicked
    /\ access[h].pc = "lookup"
    /\ panicked' \in Fatal(\E g \in Requests \ {h} : access[g].pc = "store")
    /\ \E exists \in BOOLEAN :
          /\ \/ exists = (access[h].id \in processes)
             \/ \E g \in Requests \ {h} : access[g].pc = "store" /\ access[g].id = access[h].id
          /\ access' = [access EXCEPT ![h].pc = IF exists THEN "found" ELSE "notfound",
                                      ![h].exists = exists]
    /\ UNCHANGED <<cancelled, configWorkers, parserVars, response, processes, bp, mu, now, main,
                   jobs, results, sender, worker, wg, collector, client, calls, received>>

NextRegistry ==
    \E h \in Requests :
        \/ StoreBegin(h)
        \/ StoreEnd(h)
        \/ \E batchID \in BatchIds : LookupBegin(h, batchID)
        \/ LookupEnd(h)

SpecRegistry == Init /\ [][NextRegistry]_vars

----------------------------------------------------------------------------
(* BatchProcess.startProcessing up to wg.Wait(): sets the status, makes    *)
(* the channels and starts the workers, the sender and the collector.      *)

(* a start that leaves the status as it is *)
StartedBatchSame(b) == b

(* bp.Status = "processing" *)
StartedBatch(b) == [b EXCEPT !.Status = "processing"]

startProcessing ==
    /\ ~panicked
    /\ processes # {}
    /\ main = "idle"
    /\ bp' = StartedBatch(bp)
    /\ jobs' = [buf |-> <<>>, closed |-> FALSE]
    /\ results' = [buf |-> <<>>, closed |-> FALSE]
    /\ wg' = numWorkers
    /\ worker' = [w \in Workers |-> [pc |-> "recv", msg |-> NoMsg]]
    /\ sender' = [pc |-> "send", i |-> 0]
    /\ collector' = [pc |-> "recv", completed |-> 0, msg |-> NoMsg, i |-> 0, ret |-> "none"]
    /\ calls' = [k \in 1..Total |-> <<>>]
    /\ received' = [k \in 1..Total |-> 0]
    /\ main' = "wait"
    /\ UNCHANGED <<cancelled, configWorkers, access, parserVars, response, processes, mu, now, client, panicked>>

(* wg.Wait() returns once every worker has called wg.Done() *)
startProcessingReturn ==
    /\ ~panicked
    /\ main = "wait"
    /\ wg = 0
    /\ main' = "returned"
    /\ UNCHANGED <<cancelled, configWorkers, access, parserVars, response, processes, bp, mu, now, jobs, results, sender, worker, wg,
                   collector, client, calls, received, panicked>>

----------------------------------------------------------------------------
(* The sender goroutine: enqueues every job of bp.Jobs, then closes jobs *)

SenderSend ==
    /\ ~panicked
    /\ sender.pc = "send"
    /\ sender.i < Total
    /\ Len(jobs.buf) < Total
    /\ jobs' = [jobs EXCEPT !.buf = Append(@, [idx |-> sender.i + 1,
                                               job |-> bp.Jobs[sender.i + 1]])]
    /\ sender' = [sender EXCEPT !.i = @ + 1]
    /\ UNCHANGED <<cancelled, configWorkers, access, parserVars, response, processes, bp, mu, now, main, results, worker, wg, collector,
                   client, calls, received, panicked>>

(* a sender that closes the queue with one job still to enqueue *)
AllEnqueuedButOne(i, total) == i >= total - 1

(* close(jobs) follows the loop over bp.Jobs *)
AllEnqueued(i, total) == i = total

SenderClose ==
    /\ ~panicked
    /\ sender.pc = "send"
    /\ AllEnqueued(sender.i, Total)
    /\ jobs' = [jobs EXCEPT !.closed = TRUE]
    /\ sender' = [sender EXCEPT !.pc = "done"]
    /\ UNCHANGED <<cancelled, configWorkers, access, parserVars, response, processes, bp, mu, now, main, results, worker, wg, collector,
                   client, calls, received, panicked>>

----------------------------------------------------------------------------
(* A worker goroutine: for job := range jobs { processURL; results <- job } *)

WorkerRecv(w) ==
    /\ ~panicked
    /\ worker[w].pc = "recv"
    /\ jobs.buf # <<>>
    /\ worker' = [worker EXCEPT ![w] = [pc |-> "process", msg |-> Head(jobs.buf)]]
    /\ jobs' = Recv(jobs)
    /\ UNCHANGED <<cancelled, configWorkers, access, parserVars, response, processes, bp, mu, now, main, results, sender, wg, collector,
                   client, calls, received, panicked>>

(* a worker that marks the job failed and leaves its Error unset *)
OutcomeNoError(job, err) ==
    IF err # nil
    THEN [job EXCEPT !.Status = "failed"]
    ELSE [job EXCEPT !.Status = "completed"]

(* The job after the worker has set its status from processURL's error *)
Outcome(job, err) ==
    IF err # nil
    THEN [job EXCEPT !.Status = "failed", !.Error = err]
    ELSE [job EXCEPT !.Status = "completed"]

(* filepath.Join: a path is the sequence of its elements; an empty element *)
(* is dropped                                                              *)
PathJoin(dir, elem) == IF elem = "" THEN dir ELSE Append(dir, elem)

(* processURL("./data"): modelDir, and the resultsFile of saveResults      *)
ModelDir(job) == PathJoin(<<"data">>, job.ModelNumber)

ResultsFile(job) == PathJoin(PathJoin(ModelDir(job), "results"), "parse_results.json")

(* The file os.WriteFile has written once processURL returned err: the     *)
(* primary result document when the call succeeded, none otherwise         *)
WrittenFile(job, err) == IF err = nil THEN ResultsFile(job) ELSE nil

(* a worker that ends the process (log.Fatal) when processURL fails *)
WorkerProcessFatal(w, Envs) ==
    /\ ~panicked
    /\ worker[w].pc = "process"
    /\ results.closed \/ Len(results.buf) < Total
    /\ \E env \in Envs :
         LET r == processURL(env)
             m == worker[w].msg
         IN  /\ results' = IF results.closed \/ r.err # nil THEN results
                           ELSE [results EXCEPT !.buf =
                                    Append(@, [m EXCEPT !.job = Outcome(m.job, r.err)])]
             /\ calls' = [calls EXCEPT ![m.idx] =
                             Append(@, [env |-> env, attempts |-> r.attempts, err |-> r.err,
                                        file |-> WrittenFile(m.job, r.err)])]
             /\ panicked' = (results.closed \/ r.err # nil)
    /\ worker' = [worker EXCEPT ![w] = [pc |-> "recv", msg |-> NoMsg]]
    /\ UNCHANGED <<cancelled, configWorkers, access, parserVars, response, processes, bp, mu, now, main, jobs, sender, wg, collector, client,
                   received>>

(* a worker that sends no result for a job whose processURL call failed *)
WorkerProcessDropFailed(w, Envs) ==
    /\ ~panicked
    /\ worker[w].pc = "process"
    /\ results.closed \/ Len(results.buf) < Total
    /\ \E env \in Envs :
         LET r == processURL(env)
             m == worker[w].msg
         IN  /\ results' = IF results.closed \/ r.err # nil THEN results
                           ELSE [results EXCEPT !.buf =
                                    Append(@, [m EXCEPT !.job = Outcome(m.job, r.err)])]
             /\ calls' = [calls EXCEPT ![m.idx] =
                             Append(@, [env |-> env, attempts |-> r.attempts, err |-> r.err,
                                        file |-> WrittenFile(m.job, r.err)])]
    /\ panicked' = results.closed
    /\ worker' = [worker EXCEPT ![w] = [pc |-> "recv", msg |-> NoMsg]]
    /\ UNCHANGED <<cancelled, configWorkers, access, parserVars, response, processes, bp, mu, now, main, jobs, sender, wg, collector, client,
                   received>>

(* One iteration of the worker's loop body: the processURL call, the      *)
(* status set from its error, and results <- job.  The job is the worker's *)
(* own copy, so nothing between the call's return and the send is visible  *)
(* to another goroutine; results has room for every job of the batch.  A   *)
(* send on a closed channel panics.                                        *)
WorkerProcess(w, Envs) ==
    /\ ~panicked
    /\ worker[w].pc = "process"
    /\ results.closed \/ Len(results.buf) < Total
    /\ \E env \in Envs :
         LET r == processURL(env)
             m == worker[w].msg
         IN  /\ results' = IF results.closed THEN results
                           ELSE [results EXCEPT !.buf =
                                    Append(@, [m EXCEPT !.job = Outcome(m.job, r.err)])]
             /\ calls' = [calls EXCEPT ![m.idx] =
                             Append(@, [env |-> env, attempts |-> r.attempts, err |-> r.err,
                                        file |-> WrittenFile(m.job, r.err)])]
    /\ panicked' = results.closed
    /\ worker' = [worker EXCEPT ![w] = [pc |-> "recv", msg |-> NoMsg]]
    /\ UNCHANGED <<cancelled, configWorkers, access, parserVars, response, processes, bp, mu, now, main, jobs, sender, wg, collector, client,
                   received>>

(* range jobs ends once jobs is closed and drained; defer wg.Done() *)
WorkerExit(w) ==
    /\ ~panicked
    /\ worker[w].pc = "recv"
    /\ RangeEnds(jobs)
    /\ worker' = [worker EXCEPT ![w].pc = "done"]
    /\ wg' = wg - 1
    /\ UNCHANGED <<cancelled, configWorkers, access, parserVars, response, processes, bp, mu, now, main, jobs, results, sender, collector,
                   client, calls, received, panicked>>

----------------------------------------------------------------------------
(* BatchProcess.updateJob: under bp.mu, replaces the first entry whose     *)
(* (ModelNumber, URL) matches the job                                      *)

KeyMatch(j, job) == j.ModelNumber = job.ModelNumber /\ j.URL = job.URL

(* an update that replaces every entry with the job's pair *)
updateJobAll(Jobs, job) ==
    [i \in 1..Len(Jobs) |-> IF KeyMatch(Jobs[i], job) THEN job ELSE Jobs[i]]

updateJob(Jobs, job) ==
    LET hits == { i \in 1..Len(Jobs) : KeyMatch(Jobs[i], job) }
    IN  IF hits = {} THEN Jobs
        ELSE [Jobs EXCEPT ![CHOOSE i \in hits : \A k \in hits : i <= k] = job]

(* a progress that counts the jobs still to come *)
ProgressOfRemaining(completed, total) == ((total - completed) * 100) \div total

(* bp.Progress = (completed * 100) / total *)
ProgressOf(completed, total) == (completed * 100) \div total

(* a completion check that never fires *)
AllReceivedNever(completed, total) == completed > total

(* a completion check that fires on the first result *)
AllReceivedEarly(completed, total) == completed >= 1

(* if completed == total *)
AllReceived(completed, total) == completed = total

----------------------------------------------------------------------------
(* The collector goroutine: for job := range results { ... } *)

CollectorRecv ==
    /\ ~panicked
    /\ collector.pc = "recv"
    /\ results.buf # <<>>
    /\ collector' = [collector EXCEPT !.pc = "update", !.msg = Head(results.buf),
                                      !.completed = @ + 1]
    /\ results' = Recv(results)
    /\ received' = [received EXCEPT ![Head(results.buf).idx] = @ + 1]
    /\ UNCHANGED <<cancelled, configWorkers, access, parserVars, response, processes, bp, mu, now, main, jobs, sender, worker, wg, client,
                   calls, panicked>>

(* updateJob: bp.mu.Lock() *)
UpdateJobLock ==
    /\ ~panicked
    /\ collector.pc = "update"
    /\ mu = "none"
    /\ mu' = "collector"
    /\ collector' = [collector EXCEPT !.pc = "updating"]
    /\ UNCHANGED <<cancelled, configWorkers, access, parserVars, response, processes, bp, now, main, jobs, results, sender, worker, wg,
                   client, calls, received, panicked>>

(* updateJob: the write to bp.Jobs and the deferred bp.mu.Unlock() *)
CollectorUpdateJob ==
    /\ ~panicked
    /\ collector.pc = "updating"
    /\ bp' = [bp EXCEPT !.Jobs = updateJob(@, collector.msg.job)]
    /\ mu' = "none"
    /\ collector' = [collector EXCEPT !.pc = "progress"]
    /\ UNCHANGED <<cancelled, configWorkers, access, parserVars, response, processes, now, main, jobs, results, sender, worker, wg,
                   client, calls, received, panicked>>

CollectorProgress ==
    /\ ~panicked
    /\ collector.pc = "progress"
    /\ bp' = [bp EXCEPT !.Progress = ProgressOf(collector.completed, Total)]
    /\ collector' = [collector EXCEPT !.pc = "notify", !.ret = "check"]
    /\ UNCHANGED <<cancelled, configWorkers, access, parserVars, response, processes, mu, now, main, jobs, results, sender, worker, wg,
                   client, calls, received, panicked>>

(* notifyClients: bp.mu.Lock(); defer bp.mu.Unlock() *)
NotifyLock ==
    /\ ~panicked
    /\ collector.pc = "notify"
    /\ mu = "none"
    /\ mu' = "collector"
    /\ collector' = [collector EXCEPT !.pc = "deliver", !.i = 1]
    /\ UNCHANGED <<cancelled, configWorkers, access, parserVars, response, processes, bp, now, main, jobs, results, sender, worker, wg,
                   client, calls, received, panicked>>

(* whether the select's send case can proceed: the channel is unbuffered,  *)
(* so only when its receiver is blocked in range updates                   *)
CanSend(c) == client[c].pc = "wait"

(* a delivery that waits until the subscriber takes the signal *)
NotifyDeliverBlocking ==
    /\ ~panicked
    /\ collector.pc = "deliver"
    /\ collector.i <= Len(bp.clients)
    /\ client[bp.clients[collector.i]].pc = "wait"
    /\ client' = [client EXCEPT ![bp.clients[collector.i]].pc = "write"]
    /\ collector' = [collector EXCEPT !.i = @ + 1]
    /\ UNCHANGED <<cancelled, configWorkers, access, parserVars, response, processes, bp, mu, now, main, jobs, results, sender, worker, wg,
                   calls, received, panicked>>

(* one iteration of the loop over bp.clients:                              *)
(* select { case client <- true: default: }; a send on a closed channel    *)
(* panics                                                                  *)
NotifyDeliver ==
    /\ ~panicked
    /\ collector.pc = "deliver"
    /\ collector.i <= Len(bp.clients)
    /\ LET c == bp.clients[collector.i]
       IN  /\ panicked' = (client[c].pc = "closed")
           /\ client' = IF CanSend(c) THEN [client EXCEPT ![c].pc = "write"] ELSE client
    /\ collector' = [collector EXCEPT !.i = @ + 1]
    /\ UNCHANGED <<cancelled, configWorkers, access, parserVars, response, processes, bp, mu, now, main, jobs, results, sender, worker, wg,
                   calls, received>>

NotifyUnlock ==
    /\ ~panicked
    /\ collector.pc = "deliver"
    /\ collector.i > Len(bp.clients)
    /\ mu' = "none"
    /\ collector' = [collector EXCEPT !.pc = collector.ret, !.i = 0]
    /\ UNCHANGED <<cancelled, configWorkers, access, parserVars, response, processes, bp, now, main, jobs, results, sender, worker, wg,
                   client, calls, received, panicked>>

(* if completed == total { close(results); ... } *)
CollectorCheck ==
    /\ ~panicked
    /\ collector.pc = "check"
    /\ IF AllReceived(collector.completed, Total)
       THEN /\ results' = [results EXCEPT !.closed = TRUE]
            /\ collector' = [collector EXCEPT !.pc = "status"]
       ELSE /\ collector' = [collector EXCEPT !.pc = "recv", !.msg = NoMsg]
            /\ UNCHANGED results
    /\ UNCHANGED <<cancelled, configWorkers, access, parserVars, response, processes, bp, mu, now, main, jobs, sender, worker, wg, client,
                   calls, received, panicked>>

CollectorStatus ==
    /\ ~panicked
    /\ collector.pc = "status"
    /\ bp' = [bp EXCEPT !.Status = "completed"]
    /\ collector' = [collector EXCEPT !.pc = "endtime"]
    /\ UNCHANGED <<cancelled, configWorkers, access, parserVars, response, processes, mu, now, main, jobs, results, sender, worker, wg,
                   client, calls, received, panicked>>

CollectorEndTime ==
    /\ ~panicked
    /\ collector.pc = "endtime"
    /\ bp' = [bp EXCEPT !.EndTime = now]
    /\ now' = now + 1
    /\ collector' = [collector EXCEPT !.pc = "notify", !.ret = "recv", !.msg = NoMsg]
    /\ UNCHANGED <<cancelled, configWorkers, access, parserVars, response, processes, mu, main, jobs, results, sender, worker, wg, client,
                   calls, received, panicked>>

(* range results ends once results is closed and drained *)
CollectorExit ==
    /\ ~panicked
    /\ collector.pc = "recv"
    /\ RangeEnds(results)
    /\ collector' = [collector EXCEPT !.pc = "done"]
    /\ UNCHANGED <<cancelled, configWorkers, access, parserVars, response, processes, bp, mu, now, main, jobs, results, sender, worker, wg,
                   client, calls, received, panicked>>

----------------------------------------------------------------------------
(* handleWebSocket: one handler per connection c; its channel updates is   *)
(* identified with c                                                       *)

(* process.mu.Lock() before the append; the connections are numbered in    *)
(* the order in which their handlers reach the lock                        *)
WsSubscribeLock(c) ==
    /\ ~panicked
    /\ client[c].pc = "idle"
    /\ \A d \in DOMAIN client : d < c => client[d].pc # "idle"
    /\ processes # {}
    /\ mu = "none"
    /\ mu' = Handler(c)
    /\ client' = [client EXCEPT ![c].pc = "subscribe"]
    /\ UNCHANGED <<cancelled, configWorkers, access, parserVars, response, processes, bp, now, main, jobs, results, sender, worker, wg,
                   collector, calls, received, panicked>>

(* process.clients = append(process.clients, updates); process.mu.Unlock() *)
WsSubscribe(c) ==
    /\ ~panicked
    /\ client[c].pc = "subscribe"
    /\ bp' = [bp EXCEPT !.clients = Append(@, c)]
    /\ mu' = "none"
    /\ client' = [client EXCEPT ![c].pc = "initial", ![c].late = (bp.Status = "completed")]
    /\ UNCHANGED <<cancelled, configWorkers, access, parserVars, response, processes, now, main, jobs, results, sender, worker, wg,
                   collector, calls, received, panicked>>

(* conn.WriteJSON(process) encodes the fields of *process in the order of  *)
(* the struct, each read at its own instant and none under process.mu:     *)
(* the elements of Jobs one by one, ...                                    *)
WsReadJob(c) ==
    /\ ~panicked
    /\ \/ /\ client[c].pc \in {"initial", "write"}
          /\ client' = [client EXCEPT ![c].pc = "jobs", ![c].i = 1,
                                      ![c].snap = [NoSnap EXCEPT !.Jobs = <<bp.Jobs[1]>>]]
       \/ /\ client[c].pc = "jobs"
          /\ client[c].i < Len(bp.Jobs)
          /\ client' = [client EXCEPT ![c].i = @ + 1,
                                      ![c].snap.Jobs = Append(@, bp.Jobs[client[c].i + 1])]
    /\ UNCHANGED <<cancelled, configWorkers, access, parserVars, response, processes, bp, mu, now, main, jobs, results, sender, worker, wg,
                   collector, calls, received, panicked>>

(* ... then Status, ... *)
WsReadStatus(c) ==
    /\ ~panicked
    /\ client[c].pc = "jobs"
    /\ client[c].i = Len(bp.Jobs)
    /\ client' = [client EXCEPT ![c].pc = "status", ![c].i = 0, ![c].snap.Status = bp.Status]
    /\ UNCHANGED <<cancelled, configWorkers, access, parserVars, response, processes, bp, mu, now, main, jobs, results, sender, worker, wg,
                   collector, calls, received, panicked>>

(* ... then Progress, and the write to the connection: the handler goes on *)
(* to range updates, or returns when the write fails                       *)
WsWrite(c) ==
    /\ ~panicked
    /\ client[c].pc = "status"
    /\ \E ok \in BOOLEAN :
         client' = [client EXCEPT ![c] =
                        IF ok THEN [@ EXCEPT !.pc = "wait", !.snap.Progress = bp.Progress,
                                             !.n = @ + 1]
                              ELSE [NoClient EXCEPT !.pc = "defer"]]
    /\ UNCHANGED <<cancelled, configWorkers, access, parserVars, response, processes, bp, mu, now, main, jobs, results, sender, worker, wg,
                   collector, calls, received, panicked>>

(* a removal that leaves the list as it is *)
RemoveClientKeep(clients, c) == clients

(* process.clients without the handler's channel *)
RemoveClient(clients, c) == SelectSeq(clients, LAMBDA x : x # c)

(* the deferred function: process.mu.Lock() *)
WsUnsubscribeLock(c) ==
    /\ ~panicked
    /\ client[c].pc = "defer"
    /\ mu = "none"
    /\ mu' = Handler(c)
    /\ client' = [client EXCEPT ![c].pc = "remove"]
    /\ UNCHANGED <<cancelled, configWorkers, access, parserVars, response, processes, bp, now, main, jobs, results, sender, worker, wg,
                   collector, calls, received, panicked>>

(* the deferred function: removes updates from process.clients, then       *)
(* process.mu.Unlock()                                                     *)
WsUnsubscribe(c) ==
    /\ ~panicked
    /\ client[c].pc = "remove"
    /\ bp' = [bp EXCEPT !.clients = RemoveClient(@, c)]
    /\ mu' = "none"
    /\ client' = [client EXCEPT ![c].pc = "close"]
    /\ UNCHANGED <<cancelled, configWorkers, access, parserVars, response, processes, now, main, jobs, results, sender, worker, wg,
                   collector, calls, received, panicked>>

(* close(updates) *)
WsClose(c) ==
    /\ ~panicked
    /\ client[c].pc = "close"
    /\ client' = [client EXCEPT ![c].pc = "closed"]
    /\ UNCHANGED <<cancelled, configWorkers, access, parserVars, response, processes, bp, mu, now, main, jobs, results, sender, worker, wg,
                   collector, calls, received, panicked>>

----------------------------------------------------------------------------
(* manager/parser.go, UnifiedParser.parseWithGemini: the admission gate    *)
(* p.sem, one model call per group of chunkSize chunks, the classification *)
(* of each response and the merge of the kept ones.                        *)
(*                                                                         *)
(* A Go value is [t, v]: its dynamic type and, as a sequence of strings,   *)
(* the string itself (one element) or the elements of the slice.  The      *)
(* content of a response is [json, text, members]: whether it is the text  *)
(* of a JSON object, its text, and the members of the object as JSON       *)
(* values ("string" or "array").  strings.Join(lines, "\n") is the         *)
(* sequence of the lines.                                                  *)

Str(s) == [t |-> "string", v |-> <<s>>]

StringSlice(list) == [t |-> "[]string", v |-> list]

InterfaceSlice(list) == [t |-> "[]interface {}", v |-> list]

JString(s) == [t |-> "string", v |-> <<s>>]

JArray(list) == [t |-> "array", v |-> list]

Text(s) == [json |-> FALSE, text |-> s, members |-> <<>>]

Object(members) == [json |-> TRUE, text |-> "{...}", members |-> members]

(* what the model answers: plain texts and JSON objects *)
Texts == { Text("  "), Text("No Match"), Text("NO_MATCH"), Text("see page 3") }

Objects ==
    { Object(<<>>),
      Object("serial_number" :> JString("AB123")),
      Object("serial_number" :> JString("ZZ999")),
      Object("serial_number" :> JString("NO_MATCH")),
      Object("model_number" :> JString("X9")),
      Object("user_manual" :> JString("manual.pdf")),
      Object("user_manual" :> JString("spec.pdf")),
      Object("user_manual" :> JArray(<<"manual.pdf", "spec.pdf">>)) }

(* resp, err of p.client.CreateChatCompletion *)
Completion(content) == [failed |-> FALSE, content |-> content]

RequestFailed == [failed |-> TRUE, content |-> Text("")]

Completions == { Completion(content) : content \in Texts \cup Objects } \cup {RequestFailed}

GateCompletions == { Completion(Text("see page 3")), Completion(Text("No Match")), RequestFailed }

(* strings.TrimSpace and strings.ToLower on the texts above *)
TrimSpace(s) == IF s = "  " THEN "" ELSE s

ToLower(s) ==
    CASE s = "No Match" -> "no match"
      [] s = "NO_MATCH" -> "no_match"
      [] OTHER -> s

(* a classification that compares without lower-casing *)
DiscardedExact(content) ==
    TrimSpace(content.text) \in {"", "no match", "not found", "no information"}

(* content == "" || strings.ToLower(content) == "no match" || ...          *)
(* after content = strings.TrimSpace(content)                              *)
Discarded(content) ==
    \/ TrimSpace(content.text) = ""
    \/ ToLower(TrimSpace(content.text)) \in {"no match", "not found", "no information"}

(* json.Unmarshal into map[string]interface{}: a JSON string becomes a Go  *)
(* string, a JSON array becomes []interface{}                              *)
Unmarshal(content) ==
    [k \in DOMAIN content.members |->
        IF content.members[k].t = "array"
        THEN InterfaceSlice(content.members[k].v)
        ELSE Str(content.members[k].v[1])]

ensureKeyExists(m, key, defaultValue) ==
    IF key \in DOMAIN m THEN m ELSE m @@ (key :> defaultValue)

ScalarKeys == {"name", "model_number", "serial_number", "warranty_info"}

ListKeys == {"user_manual", "other_documents"}

(* the six ensureKeyExists calls *)
Backfilled(m) ==
    LET m1 == ensureKeyExists(m, "name", Str("NO_MATCH"))
        m2 == ensureKeyExists(m1, "model_number", Str("NO_MATCH"))
        m3 == ensureKeyExists(m2, "serial_number", Str("NO_MATCH"))
        m4 == ensureKeyExists(m3, "warranty_info", Str("NO_MATCH"))
        m5 == ensureKeyExists(m4, "user_manual", StringSlice(<<>>))
    IN  ensureKeyExists(m5, "other_documents", StringSlice(<<>>))

(* if val, ok := result[key].(string); ok && val != "NO_MATCH"             *)
(*     { result[key] = []string{val} }                                     *)
SingleToSlice(m) ==
    [k \in DOMAIN m |->
        IF k \in ListKeys /\ m[k].t = "string" /\ m[k] # Str("NO_MATCH")
        THEN StringSlice(m[k].v)
        ELSE m[k]]

(* The element appended to foundResults for a response that is kept:      *)
(* [t, m, s], a map with its entries or a string with its content          *)
Found(isProductInfo, content) ==
    LET trimmed == [content EXCEPT !.text = TrimSpace(@)]
    IN  IF ~isProductInfo
        THEN [t |-> "string", m |-> <<>>, s |-> trimmed]
        ELSE IF content.json
        THEN [t |-> "map", m |-> SingleToSlice(Backfilled(Unmarshal(content))), s |-> Text("")]
        ELSE [t |-> "map", m |-> ("raw_content" :> Str(trimmed.text)), s |-> Text("")]

combinedResults ==
    [k \in ScalarKeys |-> Str("NO_MATCH")] @@
    [k \in ListKeys \cup {"additional_info"} |-> StringSlice(<<>>)]

(* a merge in which a later value replaces the one already there *)
MergeScalarLast(cur, v) ==
    IF v.t = "string" /\ v # Str("NO_MATCH") THEN v ELSE cur

(* default: a string other than the placeholder is taken while the        *)
(* combined value still is the placeholder                                 *)
MergeScalar(cur, v) ==
    IF v.t = "string" /\ v # Str("NO_MATCH") /\ cur.t = "string" /\ cur = Str("NO_MATCH")
    THEN v
    ELSE cur

(* case "user_manual", "other_documents": a []string is appended whole, a  *)
(* string other than the placeholder is appended, anything else is left    *)
MergeList(cur, v) ==
    IF v.t = "[]string"
    THEN StringSlice(cur.v \o v.v)
    ELSE IF v.t = "string" /\ v # Str("NO_MATCH")
    THEN StringSlice(cur.v \o v.v)
    ELSE cur

(* one iteration of for _, result := range foundResults *)
MergeOne(combined, found) ==
    IF "raw_content" \in DOMAIN found.m
    THEN [combined EXCEPT !["additional_info"] = StringSlice(@.v \o found.m["raw_content"].v)]
    ELSE [k \in DOMAIN combined |->
            IF k \notin DOMAIN found.m THEN combined[k]
            ELSE IF k \in ListKeys THEN MergeList(combined[k], found.m[k])
            ELSE MergeScalar(combined[k], found.m[k])]

RECURSIVE MergeAll(_, _, _)
MergeAll(combined, foundResults, k) ==
    IF k > Len(foundResults) THEN combined
    ELSE MergeAll(MergeOne(combined, foundResults[k]), foundResults, k + 1)

RECURSIVE Dedupe(_, _)
Dedupe(slice, list) ==
    IF slice = <<>> THEN list
    ELSE Dedupe(Tail(slice),
                IF \E j \in 1..Len(list) : list[j] = Head(slice)
                THEN list ELSE Append(list, Head(slice)))

dedupeStringSlice(m, key) ==
    IF m[key].t = "[]string"
    THEN [m EXCEPT ![key] = StringSlice(Dedupe(m[key].v, <<>>))]
    ELSE m

(* The value parseWithGemini returns with a nil error: [t, m, lines]       *)
NoResult == [t |-> "nil", m |-> <<>>, lines |-> <<>>]

NoMatch == [t |-> "string", m |-> <<>>, lines |-> <<Text("NO_MATCH")>>]

Combined(isProductInfo, foundResults) ==
    IF Len(foundResults) = 0
    THEN NoMatch
    ELSE IF isProductInfo
    THEN [t |-> "map",
          m |-> dedupeStringSlice(
                    dedupeStringSlice(
                        dedupeStringSlice(MergeAll(combinedResults, foundResults, 1),
                                          "user_manual"),
                        "other_documents"),
                    "additional_info"),
          lines |-> <<>>]
    ELSE [t |-> "string", m |-> <<>>,
          lines |-> [k \in 1..Len(foundResults) |-> foundResults[k].s]]

(* One call of parseWithGemini.  A caller is [pc, ctx, isProductInfo, len, *)
(* i, seen, foundResults, result, err]: len is len(domChunks), i the loop  *)
(* index, seen the completions received so far.                            *)

(* a gate that admits every caller *)
CanAcquireAlways(cur) == TRUE

(* semaphore.Weighted of size config.MaxConcurrent: a unit is free *)
CanAcquire(cur) == cur < MaxConcurrent

(* parseWithGemini is called: callers are numbered in order of arrival *)
PgCall(c, Kinds, Lens) ==
    /\ parse[c].pc = "idle"
    /\ \A d \in 1..(c - 1) : parse[d].pc # "idle"
    /\ \E kind \in Kinds, len \in Lens :
         parse' = [parse EXCEPT ![c] = [NoCaller EXCEPT !.pc = "acquire",
                                                        !.isProductInfo = kind,
                                                        !.len = len]]
    /\ UNCHANGED <<sem, siteVars, serverVars>>

(* p.sem.Acquire(ctx, 1) returns nil *)
Acquire(c) ==
    /\ parse[c].pc = "acquire"
    /\ CanAcquire(sem)
    /\ sem' = sem + 1
    /\ parse' = [parse EXCEPT ![c].pc = "loop"]
    /\ UNCHANGED <<siteVars, serverVars>>

(* p.sem.Acquire(ctx, 1) returns ctx.Err(): the deferred Release is not    *)
(* yet registered                                                          *)
AcquireFail(c) ==
    /\ parse[c].pc = "acquire"
    /\ parse[c].ctx = "done"
    /\ parse' = [parse EXCEPT ![c].pc = "returned",
                              ![c].err = Errorf("failed to acquire semaphore: %w",
                                                <<"context canceled">>)]
    /\ UNCHANGED <<sem, siteVars, serverVars>>

(* the caller's context is cancelled while the call runs *)
CtxCancel(c) ==
    /\ parse[c].pc \in {"acquire", "loop", "calling"}
    /\ parse[c].ctx = "live"
    /\ parse' = [parse EXCEPT ![c].ctx = "done"]
    /\ UNCHANGED <<sem, siteVars, serverVars>>

(* i < len(domChunks): p.client.CreateChatCompletion(ctx, req) is called *)
CreateChatCompletion(c) ==
    /\ parse[c].pc = "loop"
    /\ parse[c].i < parse[c].len
    /\ parse' = [parse EXCEPT ![c].pc = "calling"]
    /\ UNCHANGED <<sem, siteVars, serverVars>>

(* the model call returns: an error ends parseWithGemini, a completion is  *)
(* discarded or appended to foundResults; i += chunkSize                   *)
CompletionReturns(c, Rs) ==
    /\ parse[c].pc = "calling"
    /\ \E r \in Rs :
         parse' = [parse EXCEPT ![c] =
            IF r.failed
            THEN [@ EXCEPT !.pc = "release",
                           !.seen = Append(@, r),
                           !.err = Errorf("gemini request failed: %w", <<"status 500">>)]
            ELSE [@ EXCEPT !.pc = "loop",
                           !.seen = Append(@, r),
                           !.i = @ + chunkSize,
                           !.foundResults =
                               IF Discarded(r.content) THEN @
                               ELSE Append(@, Found(parse[c].isProductInfo, r.content))]]
    /\ UNCHANGED <<sem, siteVars, serverVars>>

(* the loop has ended: the result is built from foundResults *)
Combine(c) ==
    /\ parse[c].pc = "loop"
    /\ parse[c].i >= parse[c].len
    /\ parse' = [parse EXCEPT ![c].pc = "release",
                              ![c].result = Combined(parse[c].isProductInfo,
                                                     parse[c].foundResults)]
    /\ UNCHANGED <<sem, siteVars, serverVars>>

(* defer p.sem.Release(1), on the way out *)
Release(c) ==
    /\ parse[c].pc = "release"
    /\ sem' = sem - 1
    /\ parse' = [parse EXCEPT ![c].pc = "returned"]
    /\ UNCHANGED <<siteVars, serverVars>>

----------------------------------------------------------------------------
(* Specifications *)

(* The steps of the goroutines of startProcessing *)
PoolSteps ==
    \/ startProcessingReturn
    \/ SenderSend
    \/ SenderClose
    \/ \E w \in Workers : WorkerRecv(w)
    \/ \E w \in Workers : WorkerExit(w)
    \/ CollectorRecv
    \/ UpdateJobLock
    \/ CollectorUpdateJob
    \/ CollectorProgress
    \/ NotifyLock
    \/ NotifyUnlock
    \/ CollectorCheck
    \/ CollectorStatus
    \/ CollectorEndTime
    \/ CollectorExit

(* The steps of the handlers of the connections Cs *)
Subscribers(Cs) ==
    \/ \E c \in Cs : WsSubscribeLock(c)
    \/ \E c \in Cs : WsSubscribe(c)
    \/ \E c \in Cs : WsReadJob(c)
    \/ \E c \in Cs : WsReadStatus(c)
    \/ \E c \in Cs : WsWrite(c)
    \/ \E c \in Cs : WsUnsubscribeLock(c)
    \/ \E c \in Cs : WsUnsubscribe(c)
    \/ \E c \in Cs : WsClose(c)

(* Spec: one batch of up to MaxJobs jobs run by the worker pool, no        *)
(* websocket connected (bp.clients stays empty, so the delivery loop of    *)
(* notifyClients has no iteration).                                        *)
GoSteps ==
    \/ PoolSteps
    \/ \E w \in Workers : WorkerProcess(w, PoolEnvs)

Next ==
    \/ \E file \in Files(MaxJobs) : handleFileUpload(file)
    \/ startProcessing
    \/ GoSteps

Spec == Init /\ [][Next]_vars

(* FairSpec: the same pool where each Processor call succeeds or fails     *)
(* for good, under fair scheduling: the Go scheduler runs every runnable   *)
(* goroutine, and every Processor call is assumed to return.               *)
FairEnvs ==
    { [mkdirOK |-> TRUE, posts |-> allNil, reply |-> okReply],
      [mkdirOK |-> TRUE, posts |-> [k \in 1..maxRetries |-> "timeout"], reply |-> okReply] }

FairGoSteps ==
    \/ PoolSteps
    \/ \E w \in Workers : WorkerProcess(w, FairEnvs)

NextFair ==
    \/ \E file \in Files(MaxJobs) : handleFileUpload(file)
    \/ startProcessing
    \/ FairGoSteps

FairSpec == Init /\ [][NextFair]_vars /\ WF_vars(FairGoSteps)

(* SpecWs: the same with one websocket connection coming and going while   *)
(* the batch runs.                                                         *)
WsEnvs ==
    { [mkdirOK |-> TRUE, posts |-> allNil, reply |-> okReply],
      [mkdirOK |-> TRUE, posts |-> allNil,
       reply |-> [okReply EXCEPT !.StatusCode = 500, !.Error = "bad model"]] }

WsGoSteps ==
    \/ PoolSteps
    \/ NotifyDeliver
    \/ Subscribers({1})
    \/ \E w \in Workers : WorkerProcess(w, WsEnvs)

NextWs ==
    \/ \E file \in Files(MaxWsJobs) : handleFileUpload(file)
    \/ startProcessing
    \/ WsGoSteps

SpecWs == Init /\ [][NextWs]_vars

(* SpecProc: the Processor call of a one-job batch under every environment *)
(* SpecSubs: a batch of one job that succeeds, with up to MaxClients        *)
(* websocket connections coming and going while it runs.                   *)
SubsEnvs == { [mkdirOK |-> TRUE, posts |-> allNil, reply |-> okReply] }

SubsGoSteps ==
    \/ PoolSteps
    \/ NotifyDeliver
    \/ Subscribers(Clients)
    \/ \E w \in Workers : WorkerProcess(w, SubsEnvs)

NextSubs ==
    \/ \E file \in Files(1) : handleFileUpload(file)
    \/ startProcessing
    \/ SubsGoSteps

SpecSubs == Init /\ [][NextSubs]_vars

ProcGoSteps ==
    \/ PoolSteps
    \/ \E w \in Workers : WorkerProcess(w, AllEnvs)

NextProc ==
    \/ \E file \in Files(1) : handleFileUpload(file)
    \/ startProcessing
    \/ ProcGoSteps

SpecProc == Init /\ [][NextProc]_vars

(* SpecCancel: the pool, and a cancellation that is requested while the    *)
(* batch is being processed.  startProcessing takes no context and no done *)
(* channel, and processURL posts without one: the request changes nothing  *)
(* the goroutines read.                                                    *)
Cancel ==
    /\ ~panicked
    /\ bp.Status = "processing"
    /\ ~cancelled
    /\ cancelled' = TRUE
    /\ UNCHANGED <<configWorkers, access, parserVars, response, processes, bp, mu, now, main, jobs,
                   results, sender, worker, wg, collector, client, calls, received, panicked>>

NextCancel ==
    \/ \E file \in Files(MaxJobs) : handleFileUpload(file)
    \/ startProcessing
    \/ PoolSteps
    \/ \E w \in Workers : WorkerProcess(w, PoolEnvs)
    \/ Cancel

SpecCancel == Init /\ [][NextCancel]_vars

(* The steps of the parseWithGemini calls of the callers Cs *)
ParseSteps(Cs, Kinds, Lens, Rs) ==
    \/ \E c \in Cs : PgCall(c, Kinds, Lens)
    \/ \E c \in Cs : Acquire(c)
    \/ \E c \in Cs : CreateChatCompletion(c)
    \/ \E c \in Cs : CompletionReturns(c, Rs)
    \/ \E c \in Cs : Combine(c)
    \/ \E c \in Cs : Release(c)

----------------------------------------------------------------------------
(* parseWebsiteBatch and the part of parseWebsite that concerns the shared *)
(* field p.siteScraper.baseURL.  A URL is the sequence of its host and its *)
(* path segments.  The page is what scrapeWebsite returns, an input: the   *)
(* sequence of the hrefs with an allowed extension in it.                  *)

Urls == { <<"a.test", "x">>, <<"b.test", "x">> }

(* path.Base(siteDir) of createSiteFolder: the host of the URL *)
Host(u) == u[1]

(* no link, one relative link, one absolute link *)
Pages == { <<>>,
           << [IsAbs |-> FALSE, path |-> <<"manual.pdf">>] >>,
           << [IsAbs |-> TRUE, path |-> <<"c.test", "spec.pdf">>] >> }

(* url.URL.ResolveReference for a relative path: the last segment of the   *)
(* base is replaced by the reference                                       *)
ResolveReference(base, ref) == SubSeq(base, 1, Len(base) - 1) \o ref

HasRelative(page) == \E k \in 1..Len(page) : ~page[k].IsAbs

(* findPdfLinks with the value it reads from p.siteScraper.baseURL; the    *)
(* links are returned through removeDuplicates                             *)
findPdfLinks(page, base) ==
    Dedupe([k \in 1..Len(page) |->
               IF page[k].IsAbs THEN page[k].path ELSE ResolveReference(base, page[k].path)],
           <<>>)

(* a wait that returns while one goroutine is still running *)
WaitDoneButOne(n) == n <= 1

(* wg.Wait() returns when the counter is zero *)
WaitDone(n) == n = 0

parseWebsiteBatch(urls) ==
    /\ siteBatch.pc = "idle"
    /\ siteBatch' = [siteBatch EXCEPT !.pc = "spawn", !.urls = urls]
    /\ UNCHANGED <<sem, parse, baseURL, site, serverVars>>

(* one iteration of the loop over urls: wg.Add(1); go func(url) {...}(u) *)
Spawn ==
    /\ siteBatch.pc = "spawn"
    /\ siteBatch.i < Len(siteBatch.urls)
    /\ siteBatch' = [siteBatch EXCEPT !.i = @ + 1, !.wg = @ + 1]
    /\ site' = [site EXCEPT ![siteBatch.i + 1] =
                   [NoSite EXCEPT !.pc = "start", !.url = siteBatch.urls[siteBatch.i + 1]]]
    /\ UNCHANGED <<sem, parse, baseURL, serverVars>>

(* wg.Wait(); return result, nil *)
BatchReturn ==
    /\ siteBatch.pc = "spawn"
    /\ siteBatch.i = Len(siteBatch.urls)
    /\ WaitDone(siteBatch.wg)
    /\ siteBatch' = [siteBatch EXCEPT !.pc = "returned"]
    /\ UNCHANGED <<sem, parse, baseURL, site, serverVars>>

(* parseWebsite up to the download of the images: createSiteFolder fails,  *)
(* or the page is scraped                                                  *)
SiteScrape(g) ==
    /\ site[g].pc = "start"
    /\ \/ site' = [site EXCEPT ![g].pc = "lock", ![g].err = TRUE]
       \/ \E page \in Pages : site' = [site EXCEPT ![g].pc = "write", ![g].page = page]
    /\ UNCHANGED <<sem, parse, baseURL, siteBatch, serverVars>>

(* p.siteScraper.baseURL = websiteURL *)
SiteWrite(g) ==
    /\ site[g].pc = "write"
    /\ baseURL' = site[g].url
    /\ site' = [site EXCEPT ![g].pc = "read"]
    /\ UNCHANGED <<sem, parse, siteBatch, serverVars>>

(* pdfLinks, err := p.findPdfLinks(htmlContent): the field is read when a  *)
(* link of the page is relative                                            *)
SiteRead(g) ==
    /\ site[g].pc = "read"
    /\ site' = [site EXCEPT ![g].pc = "rest",
                            ![g].base = IF HasRelative(site[g].page) THEN baseURL ELSE <<>>,
                            ![g].PdfLinks = findPdfLinks(site[g].page, baseURL)]
    /\ UNCHANGED <<sem, parse, baseURL, siteBatch, serverVars>>

(* the rest of parseWebsite: parseWithGemini or saveParseResult may fail *)
SiteRest(g) ==
    /\ site[g].pc = "rest"
    /\ \E err \in BOOLEAN : site' = [site EXCEPT ![g].pc = "lock", ![g].err = err]
    /\ UNCHANGED <<sem, parse, baseURL, siteBatch, serverVars>>

(* mutex.Lock() *)
SiteLock(g) ==
    /\ site[g].pc = "lock"
    /\ siteBatch.mutex = 0
    /\ siteBatch' = [siteBatch EXCEPT !.mutex = g]
    /\ site' = [site EXCEPT ![g].pc = "append"]
    /\ UNCHANGED <<sem, parse, baseURL, serverVars>>

(* the append to result.Failed or result.Successful; mutex.Unlock() *)
SiteAppend(g) ==
    /\ site[g].pc = "append"
    /\ siteBatch' =
          IF site[g].err
          THEN [siteBatch EXCEPT !.mutex = 0, !.Failed = Append(@, site[g].url)]
          ELSE [siteBatch EXCEPT !.mutex = 0,
                                 !.Successful = Append(@, [SiteID |-> Host(site[g].url),
                                                           PdfLinks |-> site[g].PdfLinks])]
    /\ site' = [site EXCEPT ![g].pc = "exit"]
    /\ UNCHANGED <<sem, parse, baseURL, serverVars>>

(* the deferred wg.Done() *)
SiteDone(g) ==
    /\ site[g].pc = "exit"
    /\ siteBatch' = [siteBatch EXCEPT !.wg = @ - 1]
    /\ site' = [site EXCEPT ![g].pc = "done"]
    /\ UNCHANGED <<sem, parse, baseURL, serverVars>>

NextBatch ==
    \/ \E n \in 0..MaxURLs : \E urls \in [1..n -> Urls] : parseWebsiteBatch(urls)
    \/ Spawn
    \/ BatchReturn
    \/ \E g \in Goroutines :
          \/ SiteScrape(g)
          \/ SiteWrite(g)
          \/ SiteRead(g)
          \/ SiteRest(g)
          \/ SiteLock(g)
          \/ SiteAppend(g)
          \/ SiteDone(g)

SpecBatch == Init /\ [][NextBatch]_vars

(* SpecParse: one caller, every completion, up to MaxChunks chunks *)
NextParse == ParseSteps({1}, BOOLEAN, 0..MaxChunks, Completions)

SpecParse == Init /\ [][NextParse]_vars

(* SpecGate: the callers of one parser with one group of chunks each,     *)
(* whose contexts may be cancelled                                         *)
NextGate ==
    \/ ParseSteps(Callers, {FALSE}, {1}, GateCompletions)
    \/ \E c \in Callers : AcquireFail(c)
    \/ \E c \in Callers : CtxCancel(c)

SpecGate == Init /\ [][NextGate]_vars

(* SpecBusy: one batch with one job more than the pool has workers, each  *)
(* Processor call succeeding, in the schedules in which the collector      *)
(* goroutine does not get to run: results has room for every job of the    *)
(* batch, so no step of the sender or of a worker waits for the collector. *)
BusyCells ==
    << <<"M1", "u1">>, <<"M2", "u1">>, <<"M3", "u1">>,
       <<"M1", "u2">>, <<"M2", "u2">>, <<"M3", "u2">> >>

BusyFiles ==
    [headers : {<<"model_number", "url">>},
     rows : {[k \in 1..(numWorkers + 1) |-> BusyCells[k]]}]

NextBusy ==
    \/ \E file \in BusyFiles : handleFileUpload(file)
    \/ startProcessing
    \/ startProcessingReturn
    \/ SenderSend
    \/ SenderClose
    \/ \E w \in Workers : WorkerRecv(w)
    \/ \E w \in Workers : WorkerProcess(w, {[mkdirOK |-> TRUE, posts |-> allNil, reply |-> okReply]})
    \/ \E w \in Workers : WorkerExit(w)

SpecBusy == Init /\ [][NextBusy]_vars

(* SpecConfig: uploads with a configuration payload, then the pool *)
NextConfig ==
    \/ \E file \in Files(1), config \in Configs : handleUpload(file, config)
    \/ startProcessing
    \/ PoolSteps
    \/ \E w \in Workers : WorkerProcess(w, PoolEnvs)

SpecConfig == Init /\ [][NextConfig]_vars

(* SpecSites: one batch whose two jobs have the same model number and     *)
(* different sites, processed by the pool.                                 *)
SiteFiles ==
    [headers : {<<"model_number", "url">>},
     rows : { <<(<<"M1", "u1">>)>>, <<(<<"M1", "u1">>), (<<"M1", "u2">>)>> }]

NextSites ==
    \/ \E file \in SiteFiles : handleFileUpload(file)
    \/ startProcessing
    \/ PoolSteps
    \/ \E w \in Workers : WorkerProcess(w, PoolEnvs)

SpecSites == Init /\ [][NextSites]_vars

(* SpecServer: the server as main wires it. The two routes are /upload and *)
(* /ws, and no handler, goroutine or timer of the program calls            *)
(* startProcessing, so the steps are the uploads and the websocket         *)
(* handlers. net/http runs every accepted request, hence the fairness.     *)
NextServer ==
    \/ \E file \in Files(MaxJobs) : handleFileUpload(file)
    \/ Subscribers(Clients)

SpecServer == Init /\ [][NextServer]_vars /\ WF_vars(NextServer)

(* SpecIngest: the uploads alone, over files of up to MaxRows records.     *)
NextIngest == \E file \in IngestFiles : handleFileUpload(file)

SpecIngest == Init /\ [][NextIngest]_vars

----------------------------------------------------------------------------
(* Vocabulary of the properties *)

Started == main # "idle"

JobIdx == 1..Total

(* the job at position k has been through its processURL call and has its  *)
(* terminal status                                                         *)
Processed(k) == calls[k] # <<>>

AllProcessed == Started /\ \A k \in JobIdx : Processed(k)

RECURSIVE SumTo(_, _)
SumTo(f, n) == IF n = 0 THEN 0 ELSE f[n] + SumTo(f, n - 1)

Count(seq, k) == Cardinality({ i \in 1..Len(seq) : seq[i].idx = k })

InHand(k) == Cardinality({ w \in Workers : worker[w].pc = "process" /\ worker[w].msg.idx = k })

----------------------------------------------------------------------------
(* C1: under fair scheduling, once every job of the batch has its terminal *)
(* status the batch eventually has progress 100 and status Completed,      *)
(* whatever the mix of completed and failed jobs.                          *)
C1_BatchCompletes ==
    AllProcessed ~> (bp.Status = "completed" /\ bp.Progress = 100)

(* a batch of two jobs, both failed, that is Completed with progress 100 *)
C1_Witness ==
    /\ Started /\ Total = 2
    /\ \A k \in JobIdx : Processed(k) /\ calls[k][1].err # nil
    /\ bp.Status = "completed" /\ bp.Progress = 100

(* C2: the Completed transition fires exactly once: the status is set to   *)
(* Completed once and endTime is set once, by the collector in the         *)
(* iteration in which its count of received results equals the number of   *)
(* jobs, and neither is set in any other step.                             *)
C2_CompletedOnce ==
    [][ /\ CollectorStatus => bp.Status # "completed" /\ collector.completed = Total
        /\ CollectorEndTime => bp.EndTime = 0 /\ collector.completed = Total
        /\ (bp.Status # "completed" /\ bp'.Status = "completed") => CollectorStatus
        /\ bp'.EndTime # bp.EndTime => CollectorEndTime ]_vars

(* a two-job batch after its Completed transition *)
C2_Witness ==
    /\ Total = 2 /\ bp.Status = "completed" /\ bp.EndTime # 0
    /\ collector.completed = 2

(* C3: no completion is lost and none is counted twice: every result a     *)
(* worker has sent is in the results channel or has been received, the     *)
(* collector receives at most one result per job and its count is the      *)
(* number of results received; when it ends it has received exactly one    *)
(* result per job and its count is N.                                      *)
C3_NoLostOrDoubleCompletion ==
    Started =>
      /\ \A k \in JobIdx :
           /\ received[k] <= 1
           /\ Count(results.buf, k) + received[k] = Len(calls[k])
      /\ collector.completed = SumTo(received, Total)
      /\ collector.pc = "done" =>
           /\ collector.completed = Total
           /\ \A k \in JobIdx : received[k] = 1

(* the collector has ended after a two-job batch *)
C3_Witness ==
    /\ Started /\ Total = 2 /\ collector.pc = "done"
    /\ \A k \in JobIdx : received[k] = 1

(* C4: each job is dequeued by exactly one worker and handed to            *)
(* processURL exactly once: a job is always in exactly one place (not yet  *)
(* enqueued, in the jobs channel, in one worker's hand, or processed       *)
(* once), and once every worker has ended no job was skipped.              *)
C4_EachJobProcessedOnce ==
    Started =>
      /\ \A k \in JobIdx :
           /\ Len(calls[k]) <= 1
           /\ (IF k > sender.i THEN 1 ELSE 0) + Count(jobs.buf, k) + InHand(k)
                + Len(calls[k]) = 1
      /\ wg = 0 => \A k \in JobIdx : Len(calls[k]) = 1

(* two workers each hold one of the two jobs of the batch *)
C4_Witness ==
    /\ Started /\ Total = 2
    /\ \E v, w \in Workers :
         /\ v # w
         /\ worker[v].pc = "process" /\ worker[v].msg.idx = 1
         /\ worker[w].pc = "process" /\ worker[w].msg.idx = 2

----------------------------------------------------------------------------
(* More vocabulary: the results the workers have sent, and the call each   *)
(* came from                                                               *)

SentMsgs ==
    { results.buf[i] : i \in 1..Len(results.buf) }
      \cup (IF collector.msg.idx # 0 THEN {collector.msg} ELSE {})

CallOf(m) == calls[m.idx][1]

IsTransportErr(o) == o \in TransportErrs

(* the position of the first Post that gets a response *)
FirstResponse(posts) ==
    CHOOSE k \in 1..maxRetries : posts[k] = "nil" /\ \A j \in 1..(k - 1) : posts[j] # "nil"

(* C5: a Processor failure is captured on its job (status Failed, Error the *)
(* error text) and stops neither the pool nor the batch: the process stays  *)
(* alive, a worker ends only when the jobs channel is closed and drained,   *)
(* and as long as a job of the batch is unprocessed some goroutine of the   *)
(* pool can take a step, so every other job still gets its terminal status. *)
C5_FailureCaptured ==
    \A m \in SentMsgs :
        CallOf(m).err # nil => m.job.Status = "failed" /\ m.job.Error = CallOf(m).err

C5_FailureDoesNotStopPool ==
    Started =>
      /\ C5_FailureCaptured
      /\ ~panicked
      /\ \A w \in Workers : worker[w].pc = "done" => RangeEnds(jobs)
      /\ ~AllProcessed => ENABLED GoSteps
      /\ wg = 0 => AllProcessed

(* the first job failed for good at transport level, the second completed, *)
(* and both outcomes are in the batch                                      *)
C5_Witness ==
    /\ Started /\ Total = 2 /\ AllProcessed
    /\ calls[1][1].err = <<"failed after %d attempts: %v", "3", "timeout">>
    /\ bp.Jobs[1].Status = "failed" /\ bp.Jobs[1].Error = calls[1][1].err
    /\ bp.Jobs[2].Status = "completed"

(* C6: a call whose first k < maxRetries attempts fail at transport level  *)
(* and whose next attempt gets a successful response makes k + 1 attempts  *)
(* and yields the job Completed with an empty error, field for field the   *)
(* job a success on attempt 1 yields.                                      *)
C6_RetrySuccess(env, k) ==
    /\ env.mkdirOK
    /\ \A i \in 1..k : IsTransportErr(env.posts[i])
    /\ env.posts[k + 1] = "nil"
    /\ env.reply = okReply

C6_RetryThenSuccess ==
    Started =>
      \A m \in SentMsgs : \A k \in 0..(maxRetries - 1) :
          C6_RetrySuccess(CallOf(m).env, k) =>
            /\ CallOf(m).attempts = k + 1
            /\ m.job = [ModelNumber |-> "M1", URL |-> "u1", Status |-> "completed",
                        Error |-> nil, Progress |-> 0]

(* two transport failures, then a success: the job of the batch is Completed *)
C6_Witness ==
    /\ Started /\ Processed(1)
    /\ C6_RetrySuccess(calls[1][1].env, 2)
    /\ calls[1][1].attempts = 3
    /\ bp.Jobs[1].Status = "completed" /\ bp.Jobs[1].Error = nil

(* C7: when the service answers an attempt with a non-success status (an   *)
(* HTTP status other than 200, or a status field other than "success"), no *)
(* further attempt is made: the attempts are the transport failures before *)
(* it plus that one, exactly one when the first attempt gets the answer,   *)
(* and the job is Failed with the service's error.                         *)
C7_NonSuccess(env) ==
    /\ env.mkdirOK /\ Responded(env.posts) /\ env.reply.readOK
    /\ \/ env.reply.StatusCode # StatusOK
       \/ env.reply.bodyIsJSON /\ env.reply.Status # "success"

C7_ServiceError(reply) ==
    IF reply.StatusCode # StatusOK
    THEN <<"server error (status %d): %s", "500",
           IF reply.bodyIsJSON THEN reply.Error ELSE "raw body">>
    ELSE <<"processing failed: %s", reply.Error>>

C7_NoRetryOnServiceError ==
    Started =>
      \A m \in SentMsgs :
          C7_NonSuccess(CallOf(m).env) =>
            /\ CallOf(m).attempts = FirstResponse(CallOf(m).env.posts)
            /\ CallOf(m).env.posts[1] = "nil" => CallOf(m).attempts = 1
            /\ m.job.Status = "failed"
            /\ m.job.Error = C7_ServiceError(CallOf(m).env.reply)

(* the first attempt was answered with status 500: one attempt, job Failed *)
C7_Witness ==
    /\ Started /\ Processed(1)
    /\ calls[1][1].env.posts[1] = "nil"
    /\ calls[1][1].env.reply.StatusCode = 500 /\ calls[1][1].env.reply.bodyIsJSON
    /\ calls[1][1].env.reply.Error = "bad model"
    /\ calls[1][1].attempts = 1
    /\ bp.Jobs[1].Status = "failed"
    /\ bp.Jobs[1].Error = <<"server error (status %d): %s", "500", "bad model">>

(* C8: processURL makes at most maxRetries attempts and every attempt but  *)
(* the first follows a transport failure; when all maxRetries attempts     *)
(* fail at transport level the job is Failed with the error                *)
(* "failed after 3 attempts: <the last transport error>".                  *)
C8_AllTransportFail(env) ==
    env.mkdirOK /\ \A i \in 1..maxRetries : IsTransportErr(env.posts[i])

C8_BoundedRetry ==
    Started =>
      \A m \in SentMsgs :
          /\ CallOf(m).attempts <= maxRetries
          /\ \A i \in 1..(CallOf(m).attempts - 1) : IsTransportErr(CallOf(m).env.posts[i])
          /\ C8_AllTransportFail(CallOf(m).env) =>
               /\ CallOf(m).attempts = maxRetries
               /\ m.job.Status = "failed"
               /\ m.job.Error = <<"failed after %d attempts: %v", "3",
                                  CallOf(m).env.posts[maxRetries]>>

(* three transport failures, the last one different from the first *)
C8_Witness ==
    /\ Started /\ Processed(1)
    /\ calls[1][1].env.posts = <<"timeout", "timeout", "connection refused">>
    /\ calls[1][1].attempts = 3
    /\ bp.Jobs[1].Status = "failed"
    /\ bp.Jobs[1].Error = <<"failed after %d attempts: %v", "3", "connection refused">>

(* C9: every job, wherever it is (the batch's list, the channels, a        *)
(* worker's hand, the collector), has a non-empty error if it is Failed    *)
(* and an empty error if it is Completed; and so has the job a worker      *)
(* makes of a pending job under every environment of the Processor call.   *)
C9_JobOK(j) ==
    /\ j.Status = "failed" => j.Error # nil
    /\ j.Status = "completed" => j.Error = nil

C9_AllJobs ==
    { bp.Jobs[i] : i \in 1..Len(bp.Jobs) }
      \cup { jobs.buf[i].job : i \in 1..Len(jobs.buf) }
      \cup { worker[w].msg.job : w \in Workers }
      \cup { m.job : m \in SentMsgs }

C9_EveryOutcomeOK ==
    \A env \in AllEnvs : \A cell \in Cells :
        C9_JobOK(Outcome(NewJob(<<"model_number", "url">>, cell), processURL(env).err))

C9_StatusErrorInvariant ==
    /\ \A j \in C9_AllJobs : C9_JobOK(j)
    /\ C9_EveryOutcomeOK

(* a batch holding a Failed job with its error and a Completed job *)
C9_Witness ==
    /\ Total = 2
    /\ bp.Jobs[1].Status = "failed" /\ bp.Jobs[1].Error # nil
    /\ bp.Jobs[2].Status = "completed" /\ bp.Jobs[2].Error = nil

(* C10: the status of the batch only moves pending -> processing ->        *)
(* completed, one step at a time, whatever ingestion, startProcessing, the *)
(* job completions and the subscribers do.                                 *)
C10_StatusStep(a, b) ==
    \/ a = b
    \/ a = "" /\ b = "pending"
    \/ a = "pending" /\ b = "processing"
    \/ a = "processing" /\ b = "completed"

----------------------------------------------------------------------------
(* C11: the progress of the batch always lies in 0..100 and no step of any *)
(* operation lowers it.                                                    *)
C11_ProgressMonotone ==
    [][ /\ bp.Progress \in 0..100
        /\ bp'.Progress \in 0..100
        /\ bp'.Progress >= bp.Progress ]_vars

(* a batch of two jobs whose progress has risen twice, to 50 and to 100 *)
C11_Witness ==
    /\ Total = 2
    /\ collector.completed = 2
    /\ bp.Progress = 100

----------------------------------------------------------------------------
(* Terminal job statuses *)
Terminal(job) == job.Status \in {"completed", "failed"}

(* C13: whenever the status of the batch is Completed, every job of its    *)
(* job list has a terminal status (Completed or Failed).                   *)
C13_CompletedBatchAllTerminal ==
    bp.Status = "completed" => \A k \in JobIdx : Terminal(bp.Jobs[k])

----------------------------------------------------------------------------
(* the header row has a cell that is the column name up to case and        *)
(* surrounding blanks                                                      *)
C20_HasColumn(headers, name) ==
    \E i \in 1..Len(headers) : Normalize(headers[i]) = name

C20_Unacceptable(file) ==
    \/ ~C20_HasColumn(file.headers, "url")
    \/ ~C20_HasColumn(file.headers, "model_number")
    \/ Len(file.rows) = 0

(* C20: the upload of a file that lacks the url or the model_number column *)
(* (matched case-insensitively) or that yields zero jobs is answered with  *)
(* a caller error (400) and leaves the registry and the batch unchanged.   *)
(* (The first line repeats the guard of handleFileUpload, so that the      *)
(* files are only gone through for the steps that can be uploads.)         *)
C20_RejectedUploadLeavesRegistry ==
    [][ processes = {} =>
          \A file \in Files(MaxJobs) :
              (handleFileUpload(file) /\ C20_Unacceptable(file)) =>
                  /\ response'.code = StatusBadRequest
                  /\ processes' = processes
                  /\ bp' = bp ]_vars

(* a file with both columns and no record has been rejected *)
C20_Witness ==
    /\ response = BadRequest(<<"No valid jobs found in the CSV file">>)
    /\ processes = {}

----------------------------------------------------------------------------
(* the handler of connection c has written a snapshot and has not yet      *)
(* started to encode the next one: client[c].snap is what the observer got *)
Written(c) == client[c].pc \in {"wait", "write"}

TerminalCount(Jobs) == Cardinality({ k \in 1..Len(Jobs) : Terminal(Jobs[k]) })

C12_Consistent(snap) ==
    /\ snap.Progress = (100 * TerminalCount(snap.Jobs)) \div Len(snap.Jobs)
    /\ (snap.Status = "completed") <=> (TerminalCount(snap.Jobs) = Len(snap.Jobs))

(* C12: every snapshot an observer obtains, the initial one and each one   *)
(* written after a signal, is internally consistent: its progress is       *)
(* floor(100 * terminal jobs / total jobs) and its status is Completed     *)
(* exactly when all of its jobs are terminal.                              *)
C12_SnapshotsConsistent ==
    \A c \in DOMAIN client : Written(c) => C12_Consistent(client[c].snap)

----------------------------------------------------------------------------
(* a step writes one of the shared fields of the batch *)
C14_Writes ==
    \/ bp'.Status # bp.Status
    \/ bp'.Progress # bp.Progress
    \/ bp'.Jobs # bp.Jobs
    \/ bp'.EndTime # bp.EndTime
    \/ bp'.clients # bp.clients

(* a step of the handler of connection c reads fields of the batch *)
C14_Reads(c) == WsReadJob(c) \/ WsReadStatus(c) \/ WsWrite(c)

(* C14: once the batch is registered, every write of its status, progress, *)
(* jobs, endTime and observer set happens while the batch lock is held,    *)
(* and every read a subscription handler makes to produce a snapshot       *)
(* happens while that handler holds the lock.                              *)
C14_AccessUnderLock ==
    [][ processes # {} =>
          /\ C14_Writes => mu # "none"
          /\ \A c \in DOMAIN client : C14_Reads(c) => mu = Handler(c) ]_vars

----------------------------------------------------------------------------
(* C15: notifyClients does not hold the batch lock while it delivers: at   *)
(* every attempt to send the signal to a subscriber channel the notifier   *)
(* has released the lock.                                                  *)
C15_NoLockDuringDelivery ==
    [][ NotifyDeliver => mu # "collector" ]_vars

----------------------------------------------------------------------------
(* the notifier is inside its loop over bp.clients *)
Delivering == collector.pc = "deliver"

(* C16: notifyClients never waits for a subscriber.  Inside the delivery   *)
(* loop the notifier can always take its next step, whatever the           *)
(* subscribers are doing; the set it iterates over does not change under   *)
(* it; each attempt moves on to the next subscriber; a subscriber that can *)
(* take the signal receives it, and for one that cannot the signal is      *)
(* dropped without any effect on that subscriber, on the others or on the  *)
(* registration of any of them.                                            *)
C16_NotifierNeverWaits ==
    /\ [](Delivering => ENABLED (NotifyDeliver \/ NotifyUnlock))
    /\ [][ Delivering => bp'.clients = bp.clients ]_vars
    /\ [][ NotifyDeliver =>
             LET c == bp.clients[collector.i]
             IN  /\ collector'.i = collector.i + 1
                 /\ ~panicked'
                 /\ client[c].pc = "wait" => client'[c].pc = "write"
                 /\ client[c].pc # "wait" => client'[c] = client[c]
                 /\ \A d \in DOMAIN client : d # c => client'[d] = client[d] ]_vars

(* the end of a round over two subscribers: the first was still writing    *)
(* its initial snapshot at its turn, so its signal was dropped, and the    *)
(* second has received the signal                                          *)
C16_Witness ==
    /\ Delivering
    /\ Len(bp.clients) = 2
    /\ collector.i = 3
    /\ client[bp.clients[1]].pc = "initial"
    /\ client[bp.clients[2]].pc = "write"

----------------------------------------------------------------------------
(* C17: a dropped signal only delays a subscriber's view.  In finite-run   *)
(* form: once the collector has ended (no further signal will be sent), a  *)
(* subscriber that is still subscribed and waiting for signals has been    *)
(* written a snapshot that shows the latest state of the batch: status     *)
(* Completed, progress 100 and the final job list.                         *)
C17_ViewCatchesUp ==
    \A c \in DOMAIN client :
        (collector.pc = "done" /\ client[c].pc = "wait") =>
            /\ client[c].snap.Status = "completed"
            /\ client[c].snap.Progress = 100
            /\ client[c].snap.Jobs = bp.Jobs

----------------------------------------------------------------------------
(* C18: a subscriber that registers when the batch is already Completed    *)
(* receives exactly one snapshot, which shows the terminal state (status   *)
(* Completed, progress 100), and no signal or snapshot after it: it is     *)
(* never signalled, it is written at most one snapshot, and once it waits  *)
(* it has been written one.                                                *)
C18_LateSubscriberOneSnapshot ==
    \A c \in DOMAIN client :
        client[c].late =>
            /\ client[c].pc # "write"
            /\ client[c].n <= 1
            /\ client[c].pc = "wait" => client[c].n = 1
            /\ Written(c) => /\ client[c].snap.Status = "completed"
                             /\ client[c].snap.Progress = 100

----------------------------------------------------------------------------
(* the channel of connection c is in bp.clients *)
Registered(c) == \E k \in 1..Len(bp.clients) : bp.clients[k] = c

(* C19: unsubscribe is safe concurrently with delivery.  No goroutine      *)
(* panics, no closed channel is ever in the observer set, no signal is     *)
(* sent on a closed channel, and a subscriber leaves the observer set only *)
(* by its own handler's removal: the disconnect of one subscriber leaves   *)
(* the others registered, in their order.                                  *)
C19_UnsubscribeSafe ==
    /\ [](~panicked)
    /\ [](\A c \in DOMAIN client : Registered(c) => client[c].pc # "closed")
    /\ [][ NotifyDeliver => client[bp.clients[collector.i]].pc # "closed" ]_vars
    /\ [][ \A c \in DOMAIN client :
             /\ (Registered(c) /\ ~Registered(c)') => WsUnsubscribe(c)
             /\ WsUnsubscribe(c) =>
                  bp'.clients = SelectSeq(bp.clients, LAMBDA d : d # c) ]_vars

(* one subscriber has removed its channel and is about to close it while   *)
(* the notifier, inside its loop, has signalled the other one              *)
C19_Witness ==
    \E c, d \in DOMAIN client :
        /\ c # d
        /\ client[c].pc = "close"
        /\ Delivering
        /\ bp.clients = <<d>>
        /\ collector.i = 2
        /\ client[d].pc = "write"

----------------------------------------------------------------------------
(* C21: every job of a registered batch has a non-empty model number and a *)
(* non-empty url (a record with an empty url is skipped or makes the file  *)
(* rejected, so it never becomes a job).                                   *)
C21_JobsHaveModelAndUrl ==
    processes # {} =>
        \A k \in JobIdx : bp.Jobs[k].ModelNumber # "" /\ bp.Jobs[k].URL # ""

(* C22: no registered batch contains two jobs with the same                *)
(* (model number, url) pair.                                               *)
C22_NoDuplicatePairs ==
    processes # {} =>
        \A a, b \in JobIdx : a # b => ~KeyMatch(bp.Jobs[a], bp.Jobs[b])

(* C23: every registered batch is handed to a worker pool: its status      *)
(* eventually leaves pending.                                              *)
C23_RegisteredBatchStarts ==
    (processes # {}) ~> (bp.Status # "pending")

(* C30: two jobs of a batch with the same model number and different       *)
(* sites never write their primary result document to the same path.       *)
C30_SitesWriteDistinctFiles ==
    Started =>
        \A a, b \in JobIdx :
            ( /\ a # b
              /\ bp.Jobs[a].ModelNumber = bp.Jobs[b].ModelNumber
              /\ bp.Jobs[a].URL # bp.Jobs[b].URL
              /\ Processed(a) /\ calls[a][1].file # nil
              /\ Processed(b) /\ calls[b][1].file # nil )
            => calls[a][1].file # calls[b][1].file

(* C24: once cancellation has been requested in the middle of a batch, no  *)
(* worker takes a new job from the jobs channel.                           *)
C24_NoDequeueAfterCancel ==
    [][ cancelled =>
          \A w \in Workers : ~(worker[w].pc = "recv" /\ worker'[w].pc = "process") ]_vars

(* C25: the model calls in flight never exceed MaxConcurrent; the units    *)
(* held are those of the callers between a successful Acquire and their    *)
(* deferred Release, so that a caller that has returned (with a result,    *)
(* with the model's error or with NO_MATCH) holds none; a caller whose     *)
(* Acquire failed has made no model call and has left the units as they    *)
(* were.                                                                   *)
C25_InFlight == { c \in Callers : parse[c].pc = "calling" }

C25_Holders == { c \in Callers : parse[c].pc \in {"loop", "calling", "release"} }

C25_AcquireFailed(c) ==
    /\ parse[c].pc = "returned"
    /\ parse[c].err = Errorf("failed to acquire semaphore: %w", <<"context canceled">>)

C25_GateBoundsModelCalls ==
    /\ [](/\ Cardinality(C25_InFlight) <= MaxConcurrent
          /\ sem = Cardinality(C25_Holders)
          /\ sem <= MaxConcurrent
          /\ \A c \in Callers : C25_AcquireFailed(c) => parse[c].seen = <<>>)
    /\ [][ \A c \in Callers :
             (parse[c].pc = "acquire" /\ parse'[c].pc = "returned") => sem' = sem ]_vars

C25_Witness ==
    /\ sem = MaxConcurrent
    /\ Cardinality(C25_InFlight) = MaxConcurrent
    /\ \E c \in Callers : C25_AcquireFailed(c)

(* parseWithGemini has returned a value and a nil error *)
ReturnedValue(c) == parse[c].pc = "returned" /\ parse[c].err = nil

(* C26: for a product-information query, each scalar field of the merged   *)
(* record is the value of the first group, in chunk order, whose record    *)
(* has a value other than the placeholder for it, and the placeholder when *)
(* no group has one.                                                       *)
C26_HasValue(r, key) ==
    /\ ~r.failed
    /\ r.content.json
    /\ key \in DOMAIN r.content.members
    /\ r.content.members[key].t = "string"
    /\ r.content.members[key].v # <<"NO_MATCH">>

C26_First(seen, key) ==
    IF \E k \in 1..Len(seen) : C26_HasValue(seen[k], key)
    THEN LET first == CHOOSE k \in 1..Len(seen) :
                         /\ C26_HasValue(seen[k], key)
                         /\ \A j \in 1..(k - 1) : ~C26_HasValue(seen[j], key)
         IN  seen[first].content.members[key].v[1]
    ELSE "NO_MATCH"

C26_FirstValueWins ==
    \A c \in Callers :
        (ReturnedValue(c) /\ parse[c].isProductInfo /\ parse[c].result.t = "map") =>
            \A key \in ScalarKeys :
                parse[c].result.m[key] = Str(C26_First(parse[c].seen, key))

C26_Witness ==
    /\ ReturnedValue(1)
    /\ parse[1].isProductInfo
    /\ parse[1].seen = << Completion(Object("serial_number" :> JString("AB123"))),
                          Completion(Object("model_number" :> JString("X9"))),
                          Completion(Object("serial_number" :> JString("ZZ999"))) >>
    /\ parse[1].result.m["serial_number"] = Str("AB123")
    /\ parse[1].result.m["model_number"] = Str("X9")

(* C27: for a product-information query, each list field of the merged     *)
(* record is the union of the links the groups gave for it, a group giving *)
(* a single link or a list of links, without duplicates and in first-seen  *)
(* order.                                                                  *)
C27_Links(r, key) ==
    IF r.failed \/ ~r.content.json \/ key \notin DOMAIN r.content.members
    THEN <<>>
    ELSE IF r.content.members[key].v = <<"NO_MATCH">>
    THEN <<>>
    ELSE r.content.members[key].v

RECURSIVE C27_AllLinks(_, _, _)
C27_AllLinks(seen, key, k) ==
    IF k > Len(seen) THEN <<>>
    ELSE C27_Links(seen[k], key) \o C27_AllLinks(seen, key, k + 1)

C27_ListsAreUnions ==
    \A c \in Callers :
        (ReturnedValue(c) /\ parse[c].isProductInfo /\ parse[c].result.t = "map") =>
            \A key \in ListKeys :
                parse[c].result.m[key] =
                    StringSlice(Dedupe(C27_AllLinks(parse[c].seen, key, 1), <<>>))

(* C28: when the model call of one group fails, parseWithGemini still      *)
(* returns a value and no error.                                           *)
C28_FailedGroupOmitted ==
    \A c \in Callers :
        (parse[c].pc = "returned" /\ \E k \in 1..Len(parse[c].seen) : parse[c].seen[k].failed)
            => parse[c].err = nil

(* C29: parseWithGemini returns "NO_MATCH" when every completion was        *)
(* discarded (empty, or a no-result phrase), also when there was no chunk;  *)
(* when a completion was kept the result is not empty, and it reads         *)
(* NO_MATCH only if that is the text the model answered.                    *)
C29_NoResult(content) ==
    LET s == TrimSpace(content.text)
    IN  s = "" \/ ToLower(s) \in {"no match", "not found", "no information"}

C29_Kept(c) == { k \in 1..Len(parse[c].seen) : ~C29_NoResult(parse[c].seen[k].content) }

C29_NotEmpty(result) ==
    \/ result.t = "map" /\ DOMAIN result.m # {}
    \/ /\ result.t = "string"
       /\ result.lines # <<>>
       /\ \A k \in 1..Len(result.lines) : result.lines[k].text # ""

C32_ResultsClosedAfterWorkers ==
    (Started /\ results.closed) => \A w \in Workers : worker[w].pc = "done"

(* C34: the jobs channel is closed after all jobs have been enqueued and    *)
(* never before; a worker that holds a result always finds room in the     *)
(* results channel; and, every Processor call returning, every worker      *)
(* terminates and startProcessing returns.                                 *)
C34_QueueClosesAndPoolEnds ==
    /\ [](Started => (jobs.closed => sender.i = Total /\ sender.pc = "done"))
    /\ [](Started =>
            \A w \in Workers :
                worker[w].pc = "process" => (results.closed \/ Len(results.buf) < Total))
    /\ [](main = "returned" =>
            /\ RangeEnds(jobs)
            /\ \A w \in Workers : worker[w].pc = "done")
    /\ (Started ~> (main = "returned" /\ \A w \in Workers : worker[w].pc = "done"))

C34_Witness ==
    /\ main = "returned"
    /\ Total = MaxJobs
    /\ jobs.closed
    /\ \A w \in Workers : worker[w].pc = "done"

(* C35: updateJob replaces exactly one entry of the job list, one whose    *)
(* (ModelNumber, URL) matches the job, and no step changes the length of   *)
(* the list or the order of its pairs once the batch is registered.        *)
C35_Pairs(Jobs) == [k \in 1..Len(Jobs) |-> <<Jobs[k].ModelNumber, Jobs[k].URL>>]

C35_UpdateJobFrame ==
    /\ [][ (collector.pc = "updating" /\ collector'.pc = "progress") =>
             \E i \in 1..Len(bp.Jobs) :
                /\ KeyMatch(bp.Jobs[i], collector.msg.job)
                /\ bp'.Jobs = [bp.Jobs EXCEPT ![i] = collector.msg.job] ]_vars
    /\ [][ processes # {} =>
             /\ Len(bp'.Jobs) = Len(bp.Jobs)
             /\ C35_Pairs(bp'.Jobs) = C35_Pairs(bp.Jobs) ]_vars

C35_Witness ==
    /\ Started
    /\ Total = 2
    /\ bp.Jobs[1].Status = "pending"
    /\ bp.Jobs[2].Status \in {"completed", "failed"}
    /\ C35_Pairs(bp.Jobs) = << <<"M1", "u1">>, <<"M2", "u1">> >>

(* C37: when startProcessing returns, the batch is completed, its progress *)
(* is 100, its end time is set and the final notification has been issued. *)
C37_ReturnMeansCompleted ==
    main = "returned" =>
        /\ bp.Status = "completed"
        /\ bp.Progress = 100
        /\ bp.EndTime # 0
        /\ results.closed
        /\ collector.pc \in {"recv", "done"}

(* C38: no worker sends on the results channel after the collector has     *)
(* closed it: when the channel is closed every result has been sent and    *)
(* received, no worker holds a job, and no send has panicked.              *)
C38_NoSendAfterClose ==
    /\ ~panicked
    /\ (Started /\ results.closed) =>
          /\ \A k \in JobIdx : Len(calls[k]) = 1
          /\ results.buf = <<>>
          /\ collector.completed = Total
          /\ \A w \in Workers : worker[w].pc # "process"

C38_Witness ==
    /\ Started
    /\ Total = MaxJobs
    /\ results.closed
    /\ \E w \in Workers : worker[w].pc = "recv"

(* C33: at any time at most numWorkers jobs of a batch are inside the      *)
(* Processor call, and each worker has at most one job in hand: the jobs   *)
(* taken from the queue and not yet handed on are exactly those the        *)
(* workers hold, one each.                                                 *)
C33_InProcessor ==
    sender.i - Len(jobs.buf) - SumTo([k \in JobIdx |-> Len(calls[k])], Total)

C33_AtMostPoolSizeInProcessor ==
    Started =>
        /\ C33_InProcessor <= numWorkers
        /\ C33_InProcessor = Cardinality({ w \in Workers : worker[w].pc = "process" })
        /\ \A k \in JobIdx : InHand(k) <= 1

C33_Witness ==
    /\ Started
    /\ Total = numWorkers + 1
    /\ C33_InProcessor = numWorkers
    /\ Len(jobs.buf) = 1

(* C31: the pool of a batch has as many workers as configured: 5 by        *)
(* default, and k when the upload that created the batch carried a         *)
(* configuration with max_concurrent = k > 0.                              *)
C31_PoolSizeFollowsConfig ==
    Started =>
        /\ Cardinality({ w \in Workers : worker[w].pc # "none" }) = configWorkers
        /\ wg + Cardinality({ w \in Workers : worker[w].pc = "done" }) = configWorkers

(* C36: a registration and a lookup, or two registrations, are never       *)
(* inside an access of the registry map at the same time.                  *)
C36_RegistryAccessExclusive ==
    \A g, h \in Requests :
        (g # h /\ access[g].pc = "store") => access[h].pc \notin {"store", "lookup"}

(* the number of elements of a sequence that satisfy a test *)
C39_Count(seq, Test(_)) == Cardinality({ k \in 1..Len(seq) : Test(seq[k]) })

(* C39: parseWebsiteBatch returns only after every goroutine it started    *)
(* has finished, and then every input URL is accounted for exactly once:   *)
(* a URL whose parse failed is in Failed, a URL whose parse succeeded has  *)
(* one entry in Successful, and the two lists together have len(urls)      *)
(* entries.                                                                *)
C39_EveryUrlAccountedOnce ==
    siteBatch.pc = "returned" =>
        /\ \A g \in 1..Len(siteBatch.urls) : site[g].pc = "done"
        /\ Len(siteBatch.Successful) + Len(siteBatch.Failed) = Len(siteBatch.urls)
        /\ \A u \in Urls :
              /\ C39_Count(siteBatch.Failed, LAMBDA f : f = u)
                 = Cardinality({ g \in 1..Len(siteBatch.urls) : site[g].url = u /\ site[g].err })
              /\ C39_Count(siteBatch.Successful, LAMBDA r : r.SiteID = Host(u))
                 = Cardinality({ g \in 1..Len(siteBatch.urls) : site[g].url = u /\ ~site[g].err })

C39_Witness ==
    /\ siteBatch.pc = "returned"
    /\ Len(siteBatch.urls) = MaxURLs
    /\ Len(siteBatch.Successful) >= 1
    /\ Len(siteBatch.Failed) >= 1

====
